---- MODULE Spec2Model ----
(***************************************************************************)
(* A model of bdr_executor.c: the DDL/drop/truncate queueing callbacks     *)
(* with their recursion guards, bdr_replicate_ddl_command, and the         *)
(* ExecutorStart write gate (BdrExecutorStart).                            *)
(*                                                                         *)
(* One backend (session) is modelled: the guards, the truncate list and    *)
(* the GUC are private to a backend.  A queue table is modelled by the     *)
(* rows, in insertion order, that the backend's current transaction has    *)
(* inserted (when idle: that its last transaction committed); rows of      *)
(* earlier transactions never change and are left out.  An ERROR aborts    *)
(* the transaction and removes the rows it inserted.  queued_at (now()) is *)
(* left out of the rows.                                                   *)
(*                                                                         *)
(* Two parts follow several backends: SpecWal, the queue inserts of        *)
(* concurrent backends with the read of the WAL position and the insert as *)
(* separate steps, and SpecFind, one find_pkey_tuple call against          *)
(* transactions that insert, update and delete rows matching its key.      *)
(*                                                                         *)
(* SpecTrigger follows the triggers of one table through                   *)
(* bdr_create_truncate_trigger, and SpecScanKeys applies                   *)
(* build_index_scan_keys and build_index_scan_key to the indexes of a      *)
(* relation and a row.                                                     *)
(***************************************************************************)
EXTENDS Integers, Sequences, FiniteSets, TLC

VARIABLES
    in_bdr_replicate_ddl_command, \* bool in_bdr_replicate_ddl_command
    replication_origin_id,        \* RepNodeId of the session; 0 = InvalidRepNodeId
    skip_ddl_replication,         \* GUC bdr.skip_ddl_replication: "on" / "off"
    bdr_truncated_tables,         \* List *bdr_truncated_tables (oids)
    bdr_queued_commands,          \* bdr.bdr_queued_commands: rows of this transaction
    bdr_queued_drops,             \* bdr.bdr_queued_drops: rows of this transaction
    xlog,                         \* the WAL write location: what pg_current_xlog_location() returns
    xact,                         \* "idle" / "active"
    stack,                        \* bdr_replicate_ddl_command calls in progress
    bdr_always_allow_writes,      \* bool bdr_always_allow_writes
    ExecutorStart_hook,           \* the installed hook: "NULL" or a function's name
    PrevExecutorStart_hook,       \* ExecutorStart_hook_type PrevExecutorStart_hook
    node_read_only,               \* bdr.bdr_nodes.node_read_only of the local node: committed, and as the session sees it
    rd_replidindex,               \* per relation: OidIsValid(rel->rd_replidindex)
    queryDesc,                    \* the statement about to start, or NoStmt
    pending_insert,               \* per backend: the queue insert it is executing
    appended,                     \* queue rows of all backends, in insertion order
    xacts,                        \* status of each transaction id
    heap,                         \* the row versions that match the scan key, in index order
    fp,                           \* the find_pkey_tuple call of the modelled backend
    trigdesc,                     \* rel->trigdesc->triggers of table t1, in array order
    last                          \* the operation that acted last, with the state it saw

vars == << in_bdr_replicate_ddl_command, replication_origin_id,
           skip_ddl_replication, bdr_truncated_tables, bdr_queued_commands,
           bdr_queued_drops, xlog, xact, stack, bdr_always_allow_writes,
           ExecutorStart_hook, PrevExecutorStart_hook, node_read_only,
           rd_replidindex, queryDesc, pending_insert, appended, xacts, heap,
           fp, trigdesc, last >>

\* The state of the write gate, which the queueing functions leave alone,
\* and the part of it that the end of a transaction leaves alone.
gate == << bdr_always_allow_writes, ExecutorStart_hook, PrevExecutorStart_hook,
          node_read_only, rd_replidindex, queryDesc >>
gate_session == << bdr_always_allow_writes, ExecutorStart_hook,
                  PrevExecutorStart_hook, rd_replidindex, queryDesc >>

\* The variables of the modelled session's queueing functions.
queueing == << in_bdr_replicate_ddl_command, replication_origin_id,
              skip_ddl_replication, bdr_truncated_tables, bdr_queued_commands,
              bdr_queued_drops, xlog, xact, stack, last >>

\* The variables that follow several backends at once, which the actions of
\* the one modelled session leave alone.
concurrency == << pending_insert, appended, xacts, heap, fp >>

(***************************************************************************)
(* Bounds of the model.                                                    *)
(***************************************************************************)
MaxXlog == 2      \* WAL write locations that a behaviour goes through
MaxRows == 2      \* rows that a transaction inserts into the queue tables
MaxBatch == 2     \* entries of bdr_truncated_tables
MaxRecords == 2   \* rows an event-trigger introspection query returns
MaxDepth == 2     \* nested bdr_replicate_ddl_command calls
MaxResultRels == 2  \* result relations of a statement
MaxBackends == 2    \* backends inserting into the queue tables concurrently
MaxXacts == 2       \* concurrent transactions that write rows matching the key
MaxVersions == 3    \* row versions matching the key

InvalidTransactionId == 0

InvalidRepNodeId == 0

(***************************************************************************)
(* Text.  A name is a sequence of one-character strings, so that quoting   *)
(* can look at the characters; Str turns it into a string.                 *)
(***************************************************************************)
Lower == {"a","b","c","d","e","f","g","h","i","j","k","l","m","n","o","p",
          "q","r","s","t","u","v","w","x","y","z"}
Digits == {"0","1","2","3","4","5","6","7","8","9"}

RECURSIVE Str(_)
Str(cs) == IF cs = << >> THEN "" ELSE Head(cs) \o Str(Tail(cs))

RECURSIVE DoubleQuotes(_)
DoubleQuotes(cs) ==
    IF cs = << >> THEN ""
    ELSE (IF Head(cs) = "\"" THEN "\"\"" ELSE Head(cs)) \o DoubleQuotes(Tail(cs))

\* quote_identifier(): an identifier is left bare if it starts with a
\* lower-case letter or underscore and holds only lower-case letters, digits
\* and underscores; otherwise it is double-quoted, embedded quotes doubled.
\* (The keyword table is not modelled: no name below is a keyword.)
quote_identifier(cs) ==
    LET safe == /\ Len(cs) > 0
                /\ cs[1] \in Lower \cup {"_"}
                /\ \A i \in 1..Len(cs) : cs[i] \in Lower \cup Digits \cup {"_"}
    IN IF safe THEN Str(cs) ELSE "\"" \o DoubleQuotes(cs) \o "\""

quote_qualified_identifier(nsp, rel) ==
    quote_identifier(nsp) \o "." \o quote_identifier(rel)

(***************************************************************************)
(* The catalog: relations by oid.                                          *)
(***************************************************************************)
PG_CATALOG_NAMESPACE == <<"p","g","_","c","a","t","a","l","o","g">>
PublicNamespace == <<"p","u","b","l","i","c">>

pg_class ==
    [oid \in 1..5 |->
        CASE oid = 1 -> [nspname |-> PublicNamespace, relname |-> <<"t","1">>,
                         relpersistence |-> "p"]
          [] oid = 2 -> [nspname |-> PublicNamespace, relname |-> <<"t","2">>,
                         relpersistence |-> "p"]
          [] oid = 3 -> [nspname |-> PublicNamespace, relname |-> <<"T","3">>,
                         relpersistence |-> "t"]
          [] oid = 4 -> [nspname |-> PublicNamespace, relname |-> <<"u","1">>,
                         relpersistence |-> "u"]
          [] oid = 5 -> [nspname |-> PG_CATALOG_NAMESPACE,
                         relname |-> <<"p","g","_","x">>,
                         relpersistence |-> "p"]]

Oids == DOMAIN pg_class
TruncOids == {1, 2}    \* tables carrying the TRUNCATE trigger
WritableOids == { oid \in Oids : /\ pg_class[oid].relpersistence = "p"
                                 /\ pg_class[oid].nspname # PG_CATALOG_NAMESPACE }

get_namespace_name(oid) == pg_class[oid].nspname
get_rel_name(oid) == pg_class[oid].relname

SeqsUpTo(S, n) == UNION { [1..k -> S] : k \in 0..n }

(***************************************************************************)
(* Inputs.  A row returned by an introspection query is, as after          *)
(* heap_deform_tuple, a tuple of column values and a tuple of null flags   *)
(* (column i of the C arrays is element i+1 here).                         *)
(***************************************************************************)
CurrentUser == "postgres"

\* bdr_replicate_ddl_command arguments.
Queries == { "CREATE TABLE public.b ()", "DROP TABLE public.a" }

\* pg_event_trigger_get_creation_commands():
\* command_tag, object_type, schema, identity, in_extension, command
CmdPlain ==
    [values |-> <<"CREATE TABLE", "table", "public", "public.a", FALSE,
                  "CREATE TABLE public.a ()">>,
     nulls |-> <<FALSE, FALSE, FALSE, FALSE, FALSE, FALSE>>]
CmdTemp ==
    [values |-> <<"CREATE TABLE", "table", "pg_temp", "pg_temp.tmp", FALSE,
                  "CREATE TEMP TABLE tmp ()">>,
     nulls |-> <<FALSE, FALSE, FALSE, FALSE, FALSE, FALSE>>]
CmdInExtension ==
    [values |-> <<"CREATE FUNCTION", "function", "public", "public.f()", TRUE,
                  "CREATE FUNCTION public.f()">>,
     nulls |-> <<FALSE, FALSE, FALSE, FALSE, FALSE, FALSE>>]
CmdNoSchema ==
    [values |-> <<"CREATE SCHEMA", "schema", "", "s", FALSE,
                  "CREATE SCHEMA s">>,
     nulls |-> <<FALSE, FALSE, TRUE, FALSE, FALSE, FALSE>>]
CmdRecords == { CmdPlain, CmdTemp, CmdInExtension, CmdNoSchema }

\* pg_event_trigger_dropped_objects():
\* original, normal, object_type, address_names, address_args
DropOriginal ==
    [values |-> <<TRUE, FALSE, "table", <<"public", "a">>, << >> >>,
     nulls |-> <<FALSE, FALSE, FALSE, FALSE, FALSE>>]
DropNormalTemp ==
    [values |-> <<FALSE, TRUE, "index", <<"pg_temp", "tmp_idx">>, << >> >>,
     nulls |-> <<FALSE, FALSE, FALSE, FALSE, FALSE>>]
DropInternal ==
    [values |-> <<FALSE, FALSE, "toast table", <<"pg_toast", "pg_toast_1">>, << >> >>,
     nulls |-> <<FALSE, FALSE, FALSE, FALSE, FALSE>>]
DropNullFlags ==
    [values |-> <<FALSE, FALSE, "type", <<"public", "ty">>, << >> >>,
     nulls |-> <<TRUE, TRUE, FALSE, FALSE, FALSE>>]
DropRecords == { DropOriginal, DropNormalTemp, DropInternal, DropNullFlags }

(***************************************************************************)
(* bdr_queue_ddl_command: one row (lsn, perpetrator, command_tag, command) *)
(* appended to bdr.bdr_queued_commands.  lsn is what                       *)
(* pg_current_xlog_location() returned before the insert: the location up  *)
(* to which WAL has been written out, which the insert does not move (it   *)
(* moves when a backend or the WAL writer writes WAL out, XLogWrite        *)
(* below).  The function looks at neither guard nor at the GUC.            *)
(***************************************************************************)
bdr_queue_ddl_command(qc, lsn, command_tag, command) ==
    Append(qc, [lsn |-> lsn, perpetrator |-> CurrentUser,
                command_tag |-> command_tag, command |-> command])

(***************************************************************************)
(* bdr_start_truncate / bdr_finish_truncate.                               *)
(***************************************************************************)
\* bdr_start_truncate that leaves the list as the last transaction left it.
bdr_start_truncate_KeepsList == bdr_truncated_tables

bdr_start_truncate == << >>

\* TruncateList with sep never set to ", ".
RECURSIVE TruncateList_NoSeparator(_, _)
TruncateList_NoSeparator(tables, sep) ==
    IF tables = << >> THEN ""
    ELSE sep \o quote_qualified_identifier(get_namespace_name(Head(tables)),
                                           get_rel_name(Head(tables)))
             \o TruncateList_NoSeparator(Tail(tables), sep)

\* The foreach loop of bdr_finish_truncate: sep is "" before the first
\* table and ", " afterwards.
RECURSIVE TruncateList(_, _)
TruncateList(tables, sep) ==
    IF tables = << >> THEN ""
    ELSE sep \o quote_qualified_identifier(get_namespace_name(Head(tables)),
                                           get_rel_name(Head(tables)))
             \o TruncateList(Tail(tables), ", ")

\* The new queue and list.
bdr_finish_truncate(tables, qc, lsn) ==
    IF Len(tables) < 1
    THEN [qc |-> qc, tables |-> tables]
    ELSE [qc |-> bdr_queue_ddl_command(qc, lsn, "TRUNCATE (automatic)",
                     "TRUNCATE TABLE ONLY " \o TruncateList(tables, "")),
          tables |-> << >>]

\* The rows that the transaction has inserted into the queue tables.
QueuedRows == Len(bdr_queued_commands) + Len(bdr_queued_drops)

(***************************************************************************)
(* What the operation that acted last was called with and what it saw when *)
(* it started: kept in last.  (replication_origin_id and the GUC are left  *)
(* out: only StartTransaction and SetSkipDdl change them.)  registered is  *)
(* the tables whose TRUNCATE trigger has fired, with both guards clear,    *)
(* since the current transaction started.                                  *)
(***************************************************************************)
NoFrame == [query |-> "", pc |-> "none", cmds |-> 0, drops |-> 0, batch |-> 0]

Obs(op, arg) ==
    [op |-> op, arg |-> arg,
     in_ddl |-> in_bdr_replicate_ddl_command,
     depth |-> Len(stack),
     frame |-> IF stack = << >> THEN NoFrame ELSE stack[Len(stack)],
     cmds |-> Len(bdr_queued_commands),
     drops |-> Len(bdr_queued_drops),
     batch |-> bdr_truncated_tables,
     xlog |-> xlog,
     registered |->
         IF op \in {"init", "input", "StartTransaction"} THEN {}
         ELSE IF /\ op = "bdr_queue_truncate"
                 /\ ~in_bdr_replicate_ddl_command
                 /\ replication_origin_id = InvalidRepNodeId
              THEN last.registered \cup {arg}
              ELSE last.registered]

\* A callback runs in a transaction, at top level or from the command that a
\* bdr_replicate_ddl_command call is executing.
Running ==
    /\ xact = "active"
    /\ stack # << >> => stack[Len(stack)].pc = "exec"

\* An ERROR: the transaction aborts, the rows it inserted are gone.
Rollback == << >>

\* The local node's row of bdr.bdr_nodes is updated in the session's
\* transaction (simple_heap_update): the new version is what the session
\* sees, and becomes the committed one at commit or is undone by an abort.
NodeRow(read_only) == [committed |-> read_only, current |-> read_only]
CommitNodes == NodeRow(node_read_only.current)
RollbackNodes == NodeRow(node_read_only.committed)

\* bdr_local_node_read_only()
bdr_local_node_read_only == node_read_only.current

\* Backends, and a backend that is not inserting a queue row.
Backends == 1..MaxBackends
NoInsert == [pc |-> "idle", table |-> "none", lsn |-> 0]

\* Transaction ids: those of the concurrent transactions, and OldXid, a
\* transaction that committed before the model starts.
Xids == 1..MaxXacts
OldXid == MaxXacts + 1
NoXacts ==
    [x \in {InvalidTransactionId} \cup Xids \cup {OldXid} |->
        IF x = OldXid THEN "committed"
        ELSE IF x = InvalidTransactionId THEN "invalid"
        ELSE "unused"]

\* find_pkey_tuple is not running: its locals, the caller's slot (t_self and
\* the copied columns), the row lock held, and what the last scan saw (the
\* matches and the xmin and xmax left in the dirty snapshot).
NoFind == [pc |-> "idle", lock |-> FALSE, found |-> FALSE, tid |-> 0,
           slot |-> << >>, xwait |-> InvalidTransactionId, locked |-> 0,
           res |-> "none", retried |-> FALSE, matches |-> << >>,
           snap |-> [xmin |-> InvalidTransactionId, xmax |-> InvalidTransactionId]]

\* No backend is inside a queue insert and none has inserted; no concurrent
\* transaction, no row with the key, no find_pkey_tuple call.
NoConcurrency ==
    /\ pending_insert = [b \in Backends |-> NoInsert]
    /\ appended = << >>
    /\ xacts = NoXacts
    /\ heap = << >>
    /\ fp = NoFind

\* No statement is about to start.
NoStmt == [operation |-> "none", hasModifyingCTE |-> FALSE, rowMarks |-> FALSE,
           resultRelations |-> << >>]

\* The write gate's variables when the library is loaded, with hook the
\* ExecutorStart_hook that another library may have installed before.  No
\* relation of pg_class has a replica identity index yet (a system catalog
\* never has one).
GateLoaded(hook) ==
    /\ bdr_always_allow_writes = FALSE
    /\ ExecutorStart_hook = hook
    /\ PrevExecutorStart_hook = "NULL"
    /\ node_read_only = NodeRow(FALSE)
    /\ rd_replidindex = [oid \in Oids |-> FALSE]

Init ==
    /\ NoConcurrency
    /\ GateLoaded("NULL")
    /\ queryDesc = NoStmt
    /\ in_bdr_replicate_ddl_command = FALSE
    /\ replication_origin_id = InvalidRepNodeId
    /\ skip_ddl_replication = "off"
    /\ bdr_truncated_tables = << >>
    /\ bdr_queued_commands = << >>
    /\ bdr_queued_drops = << >>
    /\ xlog = 0
    /\ xact = "idle"
    /\ stack = << >>
    /\ trigdesc = << >>
    /\ last = Obs("init", << >>)

(***************************************************************************)
(* Transactions.  The callers of bdr_start_truncate and                    *)
(* bdr_finish_truncate: transaction start and pre-commit.  A session that  *)
(* applies remote changes runs its transaction with replication_origin_id  *)
(* set.                                                                    *)
(***************************************************************************)
StartTransaction(origin) ==
    /\ xact = "idle"
    /\ UNCHANGED gate
    /\ UNCHANGED concurrency
    /\ UNCHANGED trigdesc
    /\ last' = Obs("StartTransaction", origin)
    /\ xact' = "active"
    /\ replication_origin_id' = origin
    /\ bdr_truncated_tables' = bdr_start_truncate
    /\ bdr_queued_commands' = << >>
    /\ bdr_queued_drops' = << >>
    /\ UNCHANGED << in_bdr_replicate_ddl_command, skip_ddl_replication,
                    xlog, stack >>

CommitTransaction ==
    /\ xact = "active"
    /\ stack = << >>
    /\ Len(bdr_truncated_tables) >= 1 => QueuedRows < MaxRows
    /\ LET r == bdr_finish_truncate(bdr_truncated_tables, bdr_queued_commands, xlog)
       IN /\ bdr_queued_commands' = r.qc
          /\ bdr_truncated_tables' = r.tables
    /\ UNCHANGED xlog
    /\ node_read_only' = CommitNodes
    /\ UNCHANGED gate_session
    /\ UNCHANGED concurrency
    /\ UNCHANGED trigdesc
    /\ last' = Obs("CommitTransaction", << >>)
    /\ xact' = "idle"
    /\ UNCHANGED << in_bdr_replicate_ddl_command, replication_origin_id,
                    skip_ddl_replication, bdr_queued_drops, stack >>

\* ROLLBACK, or an ERROR raised outside bdr_replicate_ddl_command.  The
\* truncate list is not touched: bdr_start_truncate resets it.
AbortTransaction ==
    /\ xact = "active"
    /\ stack = << >>
    /\ node_read_only' = RollbackNodes
    /\ UNCHANGED gate_session
    /\ UNCHANGED concurrency
    /\ UNCHANGED trigdesc
    /\ last' = Obs("AbortTransaction", << >>)
    /\ bdr_queued_commands' = Rollback
    /\ bdr_queued_drops' = Rollback
    /\ xact' = "idle"
    /\ UNCHANGED << in_bdr_replicate_ddl_command, replication_origin_id,
                    skip_ddl_replication, bdr_truncated_tables, xlog, stack >>

\* SET bdr.skip_ddl_replication
SetSkipDdl(v) ==
    /\ Running
    /\ v # skip_ddl_replication
    /\ UNCHANGED gate
    /\ UNCHANGED concurrency
    /\ UNCHANGED trigdesc
    /\ last' = Obs("SetSkipDdl", v)
    /\ skip_ddl_replication' = v
    /\ UNCHANGED << in_bdr_replicate_ddl_command, replication_origin_id,
                    bdr_truncated_tables, bdr_queued_commands, bdr_queued_drops,
                    xlog, xact, stack >>

(***************************************************************************)
(* bdr_queue_truncate: the TRUNCATE trigger.  Returns the new list.        *)
(***************************************************************************)
\* bdr_queue_truncate that registers a table once.
bdr_queue_truncate_Once(tables, relid) ==
    IF in_bdr_replicate_ddl_command THEN tables
    ELSE IF replication_origin_id # InvalidRepNodeId THEN tables
    ELSE IF \E i \in 1..Len(tables) : tables[i] = relid THEN tables
    ELSE Append(tables, relid)

bdr_queue_truncate(tables, relid) ==
    IF in_bdr_replicate_ddl_command THEN tables
    ELSE IF replication_origin_id # InvalidRepNodeId THEN tables
    ELSE Append(tables, relid)

QueueTruncate(relid) ==
    /\ Running
    /\ LET new == bdr_queue_truncate(bdr_truncated_tables, relid)
       IN /\ Len(new) <= MaxBatch
          /\ bdr_truncated_tables' = new
    /\ UNCHANGED gate
    /\ UNCHANGED concurrency
    /\ UNCHANGED trigdesc
    /\ last' = Obs("bdr_queue_truncate", relid)
    /\ UNCHANGED << in_bdr_replicate_ddl_command, replication_origin_id,
                    skip_ddl_replication, bdr_queued_commands, bdr_queued_drops,
                    xlog, xact, stack >>

(***************************************************************************)
(* bdr_queue_ddl_commands: the ddl_command_end event trigger.              *)
(***************************************************************************)
\* QueueCommandsLoop without the in_extension test.
RECURSIVE QueueCommandsLoop_KeepsExtension(_, _, _)
QueueCommandsLoop_KeepsExtension(rows, qc, lsns) ==
    IF rows = << >> THEN qc
    ELSE LET cmdvalues == Head(rows).values
             cmdnulls == Head(rows).nulls
         IN IF ~cmdnulls[3] /\ cmdvalues[3] = "pg_temp"
            THEN QueueCommandsLoop_KeepsExtension(Tail(rows), qc, Tail(lsns))
            ELSE QueueCommandsLoop_KeepsExtension(Tail(rows),
                     bdr_queue_ddl_command(qc, Head(lsns), cmdvalues[1],
                                           cmdvalues[6]),
                     Tail(lsns))

\* The for loop over the reported rows: the new queue.  lsns[i] is the WAL
\* write location while row i is processed, which a row that is queued
\* gets as its lsn.
RECURSIVE QueueCommandsLoop(_, _, _)
QueueCommandsLoop(rows, qc, lsns) ==
    IF rows = << >> THEN qc
    ELSE LET cmdvalues == Head(rows).values
             cmdnulls == Head(rows).nulls
         IN IF ~cmdnulls[3] /\ cmdvalues[3] = "pg_temp"
            THEN QueueCommandsLoop(Tail(rows), qc, Tail(lsns))
            ELSE IF cmdvalues[5]
            THEN QueueCommandsLoop(Tail(rows), qc, Tail(lsns))
            ELSE QueueCommandsLoop(Tail(rows),
                     bdr_queue_ddl_command(qc, Head(lsns), cmdvalues[1],
                                           cmdvalues[6]),
                     Tail(lsns))

\* bdr_queue_ddl_commands without the in_bdr_replicate_ddl_command test.
bdr_queue_ddl_commands_NoGuard(rows, qc, lsns) ==
    IF replication_origin_id # InvalidRepNodeId THEN qc
    ELSE IF skip_ddl_replication = "on" THEN qc
    ELSE QueueCommandsLoop(rows, qc, lsns)

bdr_queue_ddl_commands(rows, qc, lsns) ==
    IF in_bdr_replicate_ddl_command THEN qc
    ELSE IF replication_origin_id # InvalidRepNodeId THEN qc
    ELSE IF skip_ddl_replication = "on" THEN qc
    ELSE QueueCommandsLoop(rows, qc, lsns)

\* The WAL write locations during a callback that processes n rows: WAL may
\* be written out by any backend while the callback runs.
XlogLocations(n) ==
    { lsns \in [1..n -> xlog..MaxXlog] :
        \A i, j \in 1..n : i < j => lsns[i] <= lsns[j] }

QueueDdlCommands(rows) ==
    /\ Running
    /\ \E lsns \in XlogLocations(Len(rows)) :
         LET qc == bdr_queue_ddl_commands(rows, bdr_queued_commands, lsns)
         IN /\ Len(qc) + Len(bdr_queued_drops) <= MaxRows
            /\ bdr_queued_commands' = qc
            /\ xlog' = IF rows = << >> THEN xlog ELSE lsns[Len(rows)]
    /\ UNCHANGED gate
    /\ UNCHANGED concurrency
    /\ UNCHANGED trigdesc
    /\ last' = Obs("bdr_queue_ddl_commands", rows)
    /\ UNCHANGED << in_bdr_replicate_ddl_command, replication_origin_id,
                    skip_ddl_replication, bdr_truncated_tables, bdr_queued_drops,
                    xact, stack >>

(***************************************************************************)
(* bdr_queue_dropped_objects: the sql_drop event trigger.                  *)
(***************************************************************************)
\* DroppedObjsLoop that skips a row unless it is both original and normal.
RECURSIVE DroppedObjsLoop_NeedsBoth(_)
DroppedObjsLoop_NeedsBoth(rows) ==
    IF rows = << >> THEN << >>
    ELSE LET cmdvalues == Head(rows).values
             cmdnulls == Head(rows).nulls
         IN IF (cmdnulls[1] \/ ~cmdvalues[1]) \/ (cmdnulls[2] \/ ~cmdvalues[2])
            THEN DroppedObjsLoop_NeedsBoth(Tail(rows))
            ELSE << [values |-> <<cmdvalues[3], cmdvalues[4], cmdvalues[5]>>,
                     nulls |-> <<cmdnulls[3], cmdnulls[4], cmdnulls[5]>>] >>
                 \o DroppedObjsLoop_NeedsBoth(Tail(rows))

\* The for loop: the bdr.dropped_object tuples kept, in order.
RECURSIVE DroppedObjsLoop(_)
DroppedObjsLoop(rows) ==
    IF rows = << >> THEN << >>
    ELSE LET cmdvalues == Head(rows).values
             cmdnulls == Head(rows).nulls
         IN IF (cmdnulls[1] \/ ~cmdvalues[1]) /\ (cmdnulls[2] \/ ~cmdvalues[2])
            THEN DroppedObjsLoop(Tail(rows))
            ELSE << [values |-> <<cmdvalues[3], cmdvalues[4], cmdvalues[5]>>,
                     nulls |-> <<cmdnulls[3], cmdnulls[4], cmdnulls[5]>>] >>
                 \o DroppedObjsLoop(Tail(rows))

bdr_queue_dropped_objects(rows, qd, lsn) ==
    IF in_bdr_replicate_ddl_command THEN qd
    ELSE IF replication_origin_id # InvalidRepNodeId THEN qd
    ELSE IF skip_ddl_replication = "on" THEN qd
    ELSE LET droppedobjs == DroppedObjsLoop(rows)
         IN IF Len(droppedobjs) = 0 THEN qd
            ELSE Append(qd, [lsn |-> lsn, dropped_objects |-> droppedobjs])

QueueDroppedObjects(rows) ==
    /\ Running
    /\ LET qd == bdr_queue_dropped_objects(rows, bdr_queued_drops, xlog)
       IN /\ Len(bdr_queued_commands) + Len(qd) <= MaxRows
          /\ bdr_queued_drops' = qd
    /\ UNCHANGED xlog
    /\ UNCHANGED gate
    /\ UNCHANGED concurrency
    /\ UNCHANGED trigdesc
    /\ last' = Obs("bdr_queue_dropped_objects", rows)
    /\ UNCHANGED << in_bdr_replicate_ddl_command, replication_origin_id,
                    skip_ddl_replication, bdr_truncated_tables,
                    bdr_queued_commands, xact, stack >>

(***************************************************************************)
(* bdr_replicate_ddl_command, in the steps between which the command it    *)
(* executes can call back into this file: set the guard; queue the row;    *)
(* (bdr_execute_ddl_command runs: callbacks, nested calls); then clear the *)
(* guard and return, or PG_CATCH clears it and re-throws.  A frame keeps   *)
(* the query and what the queues and the list held when the call began.    *)
(***************************************************************************)
ReplicateCall(query) ==
    /\ Running
    /\ Len(stack) < MaxDepth
    /\ UNCHANGED gate
    /\ UNCHANGED concurrency
    /\ UNCHANGED trigdesc
    /\ last' = Obs("bdr_replicate_ddl_command", query)
    /\ in_bdr_replicate_ddl_command' = TRUE
    /\ stack' = Append(stack, [query |-> query, pc |-> "queue",
                               cmds |-> Len(bdr_queued_commands),
                               drops |-> Len(bdr_queued_drops),
                               batch |-> Len(bdr_truncated_tables)])
    /\ UNCHANGED << replication_origin_id, skip_ddl_replication,
                    bdr_truncated_tables, bdr_queued_commands, bdr_queued_drops,
                    xlog, xact >>

ReplicateQueue ==
    /\ stack # << >>
    /\ stack[Len(stack)].pc = "queue"
    /\ QueuedRows < MaxRows
    /\ UNCHANGED gate
    /\ UNCHANGED concurrency
    /\ UNCHANGED trigdesc
    /\ last' = Obs("replicate_queue", << >>)
    /\ bdr_queued_commands' =
           bdr_queue_ddl_command(bdr_queued_commands, xlog, "SQL",
                                 stack[Len(stack)].query)
    /\ UNCHANGED xlog
    /\ stack' = [stack EXCEPT ![Len(stack)].pc = "exec"]
    /\ UNCHANGED << in_bdr_replicate_ddl_command, replication_origin_id,
                    skip_ddl_replication, bdr_truncated_tables, bdr_queued_drops,
                    xact >>

\* bdr_execute_ddl_command has returned.
ReplicateReturn ==
    /\ stack # << >>
    /\ stack[Len(stack)].pc = "exec"
    /\ UNCHANGED gate
    /\ UNCHANGED concurrency
    /\ UNCHANGED trigdesc
    /\ last' = Obs("replicate_return", << >>)
    /\ in_bdr_replicate_ddl_command' = FALSE
    /\ stack' = SubSeq(stack, 1, Len(stack) - 1)
    /\ UNCHANGED << replication_origin_id, skip_ddl_replication,
                    bdr_truncated_tables, bdr_queued_commands, bdr_queued_drops,
                    xlog, xact >>

\* ReplicateCatch without the PG_CATCH block: the guard stays set.
ReplicateCatch_NoCatch ==
    /\ stack # << >>
    /\ node_read_only' = RollbackNodes
    /\ UNCHANGED gate_session
    /\ UNCHANGED concurrency
    /\ UNCHANGED trigdesc
    /\ last' = Obs("replicate_catch", << >>)
    /\ stack' = << >>
    /\ bdr_queued_commands' = Rollback
    /\ bdr_queued_drops' = Rollback
    /\ xact' = "idle"
    /\ UNCHANGED << in_bdr_replicate_ddl_command, replication_origin_id,
                    skip_ddl_replication, bdr_truncated_tables, xlog >>

\* ReplicateCatch with the rows the transaction inserted left in the queue.
ReplicateCatch_KeepsRows ==
    /\ stack # << >>
    /\ node_read_only' = RollbackNodes
    /\ UNCHANGED gate_session
    /\ UNCHANGED concurrency
    /\ UNCHANGED trigdesc
    /\ last' = Obs("replicate_catch", << >>)
    /\ in_bdr_replicate_ddl_command' = FALSE
    /\ stack' = << >>
    /\ xact' = "idle"
    /\ UNCHANGED << replication_origin_id, skip_ddl_replication,
                    bdr_truncated_tables, bdr_queued_commands, bdr_queued_drops,
                    xlog >>

\* bdr_queue_ddl_command or bdr_execute_ddl_command raised an ERROR: PG_CATCH
\* clears the guard and re-throws, through every enclosing call; the
\* transaction aborts.
ReplicateCatch ==
    /\ stack # << >>
    /\ node_read_only' = RollbackNodes
    /\ UNCHANGED gate_session
    /\ UNCHANGED concurrency
    /\ UNCHANGED trigdesc
    /\ last' = Obs("replicate_catch", << >>)
    /\ in_bdr_replicate_ddl_command' = FALSE
    /\ stack' = << >>
    /\ bdr_queued_commands' = Rollback
    /\ bdr_queued_drops' = Rollback
    /\ xact' = "idle"
    /\ UNCHANGED << replication_origin_id, skip_ddl_replication,
                    bdr_truncated_tables, xlog >>

\* WAL is written out, by a backend that commits or needs buffer space or by
\* the WAL writer: the write location moves on.
XLogWrite ==
    /\ xlog < MaxXlog
    /\ xlog' = xlog + 1
    /\ UNCHANGED << in_bdr_replicate_ddl_command, replication_origin_id,
                    skip_ddl_replication, bdr_truncated_tables,
                    bdr_queued_commands, bdr_queued_drops, xact, stack, last >>
    /\ UNCHANGED gate
    /\ UNCHANGED concurrency
    /\ UNCHANGED trigdesc

\* In Spec a statement reports one command, or one dropped object, that is
\* kept or one that is filtered; the callbacks are applied to every list of
\* rows in SpecQueueDdl and SpecQueueDrops below.
StmtCmdRows == { <<CmdPlain>>, <<CmdTemp>> }
StmtDropRows == { <<DropOriginal>>, <<DropInternal>> }

Next ==
    \/ \E origin \in {InvalidRepNodeId, 1} : StartTransaction(origin)
    \/ CommitTransaction
    \/ AbortTransaction
    \/ \E v \in {"on", "off"} : SetSkipDdl(v)
    \/ \E relid \in TruncOids : QueueTruncate(relid)
    \/ \E rows \in StmtCmdRows : QueueDdlCommands(rows)
    \/ \E rows \in StmtDropRows : QueueDroppedObjects(rows)
    \/ \E query \in Queries : ReplicateCall(query)
    \/ ReplicateQueue
    \/ ReplicateReturn
    \/ ReplicateCatch
    \/ XLogWrite

Spec == Init /\ [][Next]_vars

(***************************************************************************)
(* The callbacks applied to every list of reported rows.  The session is   *)
(* in a transaction, at top level or inside a bdr_replicate_ddl_command    *)
(* call that has queued its row, as a local backend or as an apply worker, *)
(* with the GUC on or off; last holds the rows the introspection query     *)
(* is about to return.                                                     *)
(***************************************************************************)
InitCallback(inputs) ==
    /\ NoConcurrency
    /\ GateLoaded("NULL")
    /\ queryDesc = NoStmt
    /\ in_bdr_replicate_ddl_command \in BOOLEAN
    /\ replication_origin_id \in {InvalidRepNodeId, 1}
    /\ skip_ddl_replication \in {"on", "off"}
    /\ bdr_truncated_tables = << >>
    /\ \E query \in Queries :
         /\ stack = IF in_bdr_replicate_ddl_command
                    THEN << [query |-> query, pc |-> "exec", cmds |-> 0,
                             drops |-> 0, batch |-> 0] >>
                    ELSE << >>
         /\ bdr_queued_commands =
                IF in_bdr_replicate_ddl_command
                THEN bdr_queue_ddl_command(<< >>, 0, "SQL", query)
                ELSE << >>
    /\ bdr_queued_drops = << >>
    /\ xlog = 0
    /\ xact = "active"
    /\ trigdesc = << >>
    /\ \E rows \in inputs : last = Obs("input", rows)

InitQueueDdl == InitCallback(SeqsUpTo(CmdRecords, MaxRecords))
NextQueueDdl == last.op = "input" /\ QueueDdlCommands(last.arg)
SpecQueueDdl == InitQueueDdl /\ [][NextQueueDdl]_vars

InitQueueDrops == InitCallback(SeqsUpTo(DropRecords, MaxRecords))
NextQueueDrops == last.op = "input" /\ QueueDroppedObjects(last.arg)
SpecQueueDrops == InitQueueDrops /\ [][NextQueueDrops]_vars

(***************************************************************************)
(* The ExecutorStart write gate.  A statement is its PlannedStmt fields    *)
(* that the gate reads: operation (commandType), hasModifyingCTE, whether  *)
(* rowMarks is not NIL, and the relations that resultRelations names       *)
(* through the range table (rt_fetch(rtei, rtable)->relid), in order.      *)
(* What the gate did is a record: delegated or error, the handler called,  *)
(* the error fields, and the collaborators called, in order.               *)
(***************************************************************************)
Stmts ==
    { s \in [operation : {"CMD_SELECT", "CMD_INSERT", "CMD_UPDATE", "CMD_DELETE"},
             hasModifyingCTE : BOOLEAN,
             rowMarks : BOOLEAN,
             resultRelations : SeqsUpTo(Oids, MaxResultRels)] :
        \* only a SELECT without a modifying CTE has no result relation
        (s.operation = "CMD_SELECT" /\ ~s.hasModifyingCTE)
            <=> (s.resultRelations = << >>) }

LocalNode == "node1"
NodeNames == {LocalNode, "node2"}     \* node2 has no row in bdr.bdr_nodes

RelationNeedsWAL(rel) == rel.relpersistence = "p"
RelationGetNamespace(rel) == rel.nspname
RelationGetRelationName(rel) == Str(rel.relname)

CreateCommandTag(plannedstmt) ==
    CASE plannedstmt.operation = "CMD_SELECT" -> "SELECT"
      [] plannedstmt.operation = "CMD_INSERT" -> "INSERT"
      [] plannedstmt.operation = "CMD_UPDATE" -> "UPDATE"
      [] plannedstmt.operation = "CMD_DELETE" -> "DELETE"

CreateWritableStmtTag(plannedstmt) ==
    IF plannedstmt.operation = "CMD_SELECT" THEN "DML"
    ELSE CreateCommandTag(plannedstmt)

\* ereport(ERROR, ...): no handler is called.
GateError(code, msg, hint, calls) ==
    [result |-> "error", handler |-> "none", errcode |-> code, errmsg |-> msg,
     errhint |-> hint, calls |-> calls]

\* done: that calls standard_ExecutorStart whatever hook was installed before.
GateDone_IgnoresPrev(calls) ==
    [result |-> "delegated", handler |-> "standard_ExecutorStart", errcode |-> "",
     errmsg |-> "", errhint |-> "",
     calls |-> Append(calls, "standard_ExecutorStart")]

\* done: the previous hook if there is one, else standard_ExecutorStart.
GateDone(calls) ==
    LET handler == IF PrevExecutorStart_hook # "NULL"
                   THEN PrevExecutorStart_hook
                   ELSE "standard_ExecutorStart"
    IN [result |-> "delegated", handler |-> handler, errcode |-> "",
        errmsg |-> "", errhint |-> "", calls |-> Append(calls, handler)]

\* CheckResultRelations without the read-only test.
RECURSIVE CheckResultRelations_NoReadOnly(_, _, _, _)
CheckResultRelations_NoReadOnly(rels, plannedstmt, read_only_node, calls) ==
    IF rels = << >> THEN GateDone(calls)
    ELSE LET rel == pg_class[Head(rels)]
             opened == Append(calls, "RelationIdGetRelation")
         IN IF ~RelationNeedsWAL(rel)
            THEN CheckResultRelations_NoReadOnly(Tail(rels), plannedstmt,
                                                 read_only_node, opened)
            ELSE IF RelationGetNamespace(rel) = PG_CATALOG_NAMESPACE
            THEN CheckResultRelations_NoReadOnly(Tail(rels), plannedstmt,
                                                 read_only_node, opened)
            ELSE IF rd_replidindex[Head(rels)]
            THEN CheckResultRelations_NoReadOnly(Tail(rels), plannedstmt,
                                                 read_only_node, opened)
            ELSE GateError("ERRCODE_OBJECT_NOT_IN_PREREQUISITE_STATE",
                     "Cannot run UPDATE or DELETE on table "
                         \o RelationGetRelationName(rel)
                         \o " because it does not have a PRIMARY KEY.",
                     "Add a PRIMARY KEY to the table", opened)

\* CheckResultRelations without the pg_catalog test.
RECURSIVE CheckResultRelations_ChecksCatalog(_, _, _, _)
CheckResultRelations_ChecksCatalog(rels, plannedstmt, read_only_node, calls) ==
    IF rels = << >> THEN GateDone(calls)
    ELSE LET rel == pg_class[Head(rels)]
             opened == Append(calls, "RelationIdGetRelation")
         IN IF ~RelationNeedsWAL(rel)
            THEN CheckResultRelations_ChecksCatalog(Tail(rels), plannedstmt,
                                                    read_only_node, opened)
            ELSE IF read_only_node
            THEN GateError("ERRCODE_READ_ONLY_SQL_TRANSACTION",
                     CreateWritableStmtTag(plannedstmt)
                         \o " may only affect UNLOGGED or TEMPORARY tables "
                         \o "on read-only BDR node; "
                         \o RelationGetRelationName(rel)
                         \o " is a regular table",
                     "", opened)
            ELSE IF rd_replidindex[Head(rels)]
            THEN CheckResultRelations_ChecksCatalog(Tail(rels), plannedstmt,
                                                    read_only_node, opened)
            ELSE GateError("ERRCODE_OBJECT_NOT_IN_PREREQUISITE_STATE",
                     "Cannot run UPDATE or DELETE on table "
                         \o RelationGetRelationName(rel)
                         \o " because it does not have a PRIMARY KEY.",
                     "Add a PRIMARY KEY to the table", opened)

\* The foreach loop over plannedstmt->resultRelations.
RECURSIVE CheckResultRelations(_, _, _, _)
CheckResultRelations(rels, plannedstmt, read_only_node, calls) ==
    IF rels = << >> THEN GateDone(calls)
    ELSE LET rel == pg_class[Head(rels)]
             opened == Append(calls, "RelationIdGetRelation")
         IN IF ~RelationNeedsWAL(rel)
            THEN CheckResultRelations(Tail(rels), plannedstmt, read_only_node, opened)
            ELSE IF RelationGetNamespace(rel) = PG_CATALOG_NAMESPACE
            THEN CheckResultRelations(Tail(rels), plannedstmt, read_only_node, opened)
            ELSE IF read_only_node
            THEN GateError("ERRCODE_READ_ONLY_SQL_TRANSACTION",
                     CreateWritableStmtTag(plannedstmt)
                         \o " may only affect UNLOGGED or TEMPORARY tables "
                         \o "on read-only BDR node; "
                         \o RelationGetRelationName(rel)
                         \o " is a regular table",
                     "", opened)
            ELSE IF rd_replidindex[Head(rels)]
            THEN CheckResultRelations(Tail(rels), plannedstmt, read_only_node, opened)
            ELSE GateError("ERRCODE_OBJECT_NOT_IN_PREREQUISITE_STATE",
                     "Cannot run UPDATE or DELETE on table "
                         \o RelationGetRelationName(rel)
                         \o " because it does not have a PRIMARY KEY.",
                     "Add a PRIMARY KEY to the table", opened)

\* BdrExecutorStart without the plain-INSERT shortcut.
BdrExecutorStart_NoInsertShortcut(qd, activated, locks) ==
    LET performs_writes ==
            IF qd.hasModifyingCTE \/ qd.rowMarks THEN TRUE
            ELSE qd.operation # "CMD_SELECT"
    IN IF bdr_always_allow_writes THEN GateDone(<< >>)
       ELSE IF ~performs_writes THEN GateDone(<< >>)
       ELSE IF ~activated THEN GateDone(<<"bdr_is_bdr_activated_db">>)
       ELSE LET read_only_node == bdr_local_node_read_only
                calls == <<"bdr_is_bdr_activated_db", "bdr_local_node_read_only",
                           "bdr_locks_check_dml">>
            IN IF locks = "error"
               THEN GateError("bdr_locks_check_dml", "", "", calls)
               ELSE CheckResultRelations(qd.resultRelations, qd,
                                         read_only_node, calls)

\* BdrExecutorStart without the bdr_always_allow_writes test.
BdrExecutorStart_NoOverride(qd, activated, locks) ==
    LET performs_writes ==
            IF qd.hasModifyingCTE \/ qd.rowMarks THEN TRUE
            ELSE qd.operation # "CMD_SELECT"
    IN IF ~performs_writes THEN GateDone(<< >>)
       ELSE IF ~activated THEN GateDone(<<"bdr_is_bdr_activated_db">>)
       ELSE LET read_only_node == bdr_local_node_read_only
                calls == <<"bdr_is_bdr_activated_db", "bdr_local_node_read_only",
                           "bdr_locks_check_dml">>
            IN IF locks = "error"
               THEN GateError("bdr_locks_check_dml", "", "", calls)
               ELSE IF /\ qd.operation = "CMD_INSERT"
                       /\ ~qd.hasModifyingCTE
                       /\ ~read_only_node
               THEN GateDone(calls)
               ELSE CheckResultRelations(qd.resultRelations, qd,
                                         read_only_node, calls)

\* BdrExecutorStart with the plain-INSERT shortcut taken before the lock check.
BdrExecutorStart_ShortcutFirst(qd, activated, locks) ==
    LET performs_writes ==
            IF qd.hasModifyingCTE \/ qd.rowMarks THEN TRUE
            ELSE qd.operation # "CMD_SELECT"
    IN IF bdr_always_allow_writes THEN GateDone(<< >>)
       ELSE IF ~performs_writes THEN GateDone(<< >>)
       ELSE IF ~activated THEN GateDone(<<"bdr_is_bdr_activated_db">>)
       ELSE LET read_only_node == bdr_local_node_read_only
                calls == <<"bdr_is_bdr_activated_db", "bdr_local_node_read_only",
                           "bdr_locks_check_dml">>
            IN IF /\ qd.operation = "CMD_INSERT"
                  /\ ~qd.hasModifyingCTE
                  /\ ~read_only_node
               THEN GateDone(<<"bdr_is_bdr_activated_db", "bdr_local_node_read_only">>)
               ELSE IF locks = "error"
               THEN GateError("bdr_locks_check_dml", "", "", calls)
               ELSE CheckResultRelations(qd.resultRelations, qd,
                                         read_only_node, calls)

\* BdrExecutorStart(queryDesc, eflags), with what its collaborators answer:
\* activated is bdr_is_bdr_activated_db(MyDatabaseId); locks is "ok" when
\* bdr_locks_check_dml returns and "error" when it raises.
BdrExecutorStart(qd, activated, locks) ==
    LET performs_writes ==
            IF qd.hasModifyingCTE \/ qd.rowMarks THEN TRUE
            ELSE qd.operation # "CMD_SELECT"
    IN IF bdr_always_allow_writes THEN GateDone(<< >>)
       ELSE IF ~performs_writes THEN GateDone(<< >>)
       ELSE IF ~activated THEN GateDone(<<"bdr_is_bdr_activated_db">>)
       ELSE LET read_only_node == bdr_local_node_read_only
                calls == <<"bdr_is_bdr_activated_db", "bdr_local_node_read_only",
                           "bdr_locks_check_dml">>
            IN IF locks = "error"
               THEN GateError("bdr_locks_check_dml", "", "", calls)
               ELSE IF /\ qd.operation = "CMD_INSERT"
                       /\ ~qd.hasModifyingCTE
                       /\ ~read_only_node
               THEN GateDone(calls)
               ELSE CheckResultRelations(qd.resultRelations, qd,
                                         read_only_node, calls)

\* The executor starts the waiting statement through the installed hook.  An
\* ERROR aborts the transaction.  The observation keeps what the gate read.
ExecutorStart(activated, locks) ==
    /\ UNCHANGED concurrency
    /\ UNCHANGED trigdesc
    /\ queryDesc # NoStmt
    /\ ExecutorStart_hook = "BdrExecutorStart"
    /\ xact = "active"
    /\ LET out == BdrExecutorStart(queryDesc, activated, locks)
       IN /\ last' = Obs("BdrExecutorStart",
                         [queryDesc |-> queryDesc, activated |-> activated,
                          locks |-> locks,
                          always_allow |-> bdr_always_allow_writes,
                          read_only |-> bdr_local_node_read_only,
                          replidindex |-> rd_replidindex,
                          prev |-> PrevExecutorStart_hook,
                          out |-> out])
          /\ IF out.result = "error"
             THEN /\ bdr_queued_commands' = Rollback
                  /\ bdr_queued_drops' = Rollback
                  /\ node_read_only' = RollbackNodes
                  /\ xact' = "idle"
             ELSE UNCHANGED << bdr_queued_commands, bdr_queued_drops,
                               node_read_only, xact >>
    /\ queryDesc' = NoStmt
    /\ UNCHANGED << in_bdr_replicate_ddl_command, replication_origin_id,
                    skip_ddl_replication, bdr_truncated_tables, xlog, stack,
                    bdr_always_allow_writes, ExecutorStart_hook,
                    PrevExecutorStart_hook, rd_replidindex >>

\* bdr_executor_init, called once when the library is loaded.
ExecutorInit ==
    /\ UNCHANGED concurrency
    /\ UNCHANGED trigdesc
    /\ ExecutorStart_hook # "BdrExecutorStart"
    /\ PrevExecutorStart_hook' = ExecutorStart_hook
    /\ ExecutorStart_hook' = "BdrExecutorStart"
    /\ UNCHANGED << in_bdr_replicate_ddl_command, replication_origin_id,
                    skip_ddl_replication, bdr_truncated_tables,
                    bdr_queued_commands, bdr_queued_drops, xlog, xact, stack,
                    bdr_always_allow_writes, node_read_only, rd_replidindex,
                    queryDesc, last >>

\* bdr_executor_always_allow_writes(always_allow)
AlwaysAllowWrites(always_allow) ==
    /\ UNCHANGED concurrency
    /\ UNCHANGED trigdesc
    /\ queryDesc # NoStmt
    /\ always_allow # bdr_always_allow_writes
    /\ bdr_always_allow_writes' = always_allow
    /\ UNCHANGED << in_bdr_replicate_ddl_command, replication_origin_id,
                    skip_ddl_replication, bdr_truncated_tables,
                    bdr_queued_commands, bdr_queued_drops, xlog, xact, stack,
                    ExecutorStart_hook, PrevExecutorStart_hook, node_read_only,
                    rd_replidindex, queryDesc, last >>

\* bdr_node_set_read_only(node_name, read_only), called in a transaction
\* before the waiting statement: the node's row is updated, or the node is
\* not found and elog(ERROR) aborts the transaction.
NodeSetReadOnly(node_name, read_only) ==
    /\ UNCHANGED concurrency
    /\ UNCHANGED trigdesc
    /\ queryDesc # NoStmt
    /\ xact = "active"
    /\ IF node_name = LocalNode
       THEN /\ node_read_only' = [node_read_only EXCEPT !.current = read_only]
            /\ UNCHANGED << bdr_queued_commands, bdr_queued_drops, xact >>
       ELSE /\ bdr_queued_commands' = Rollback
            /\ bdr_queued_drops' = Rollback
            /\ xact' = "idle"
            /\ node_read_only' = RollbackNodes
    /\ UNCHANGED << in_bdr_replicate_ddl_command, replication_origin_id,
                    skip_ddl_replication, bdr_truncated_tables, xlog, stack,
                    bdr_always_allow_writes, ExecutorStart_hook,
                    PrevExecutorStart_hook, rd_replidindex, queryDesc, last >>

\* A committed ALTER TABLE gives the table a replica identity index
\* (rd_replidindex becomes valid when the relation is next opened).
AddReplicaIdentity(relid) ==
    /\ UNCHANGED concurrency
    /\ UNCHANGED trigdesc
    /\ queryDesc # NoStmt
    /\ ~rd_replidindex[relid]
    /\ rd_replidindex' = [rd_replidindex EXCEPT ![relid] = TRUE]
    /\ UNCHANGED << in_bdr_replicate_ddl_command, replication_origin_id,
                    skip_ddl_replication, bdr_truncated_tables,
                    bdr_queued_commands, bdr_queued_drops, xlog, xact, stack,
                    bdr_always_allow_writes, ExecutorStart_hook,
                    PrevExecutorStart_hook, node_read_only, queryDesc, last >>

\* The gate applied to every statement: the session is in a transaction
\* that has queued one row, a statement waits to be started, and another
\* library may have installed its ExecutorStart_hook first.
InitGate ==
    /\ NoConcurrency
    /\ \E hook \in {"NULL", "other_ExecutorStart"} : GateLoaded(hook)
    /\ queryDesc \in Stmts
    /\ in_bdr_replicate_ddl_command = FALSE
    /\ replication_origin_id = InvalidRepNodeId
    /\ skip_ddl_replication = "off"
    /\ bdr_truncated_tables = << >>
    /\ \E query \in Queries :
         bdr_queued_commands = bdr_queue_ddl_command(<< >>, 0, "SQL", query)
    /\ bdr_queued_drops = << >>
    /\ xlog = 0
    /\ xact = "active"
    /\ stack = << >>
    /\ trigdesc = << >>
    /\ last = Obs("init", << >>)

NextGate ==
    \/ ExecutorInit
    \/ \E always_allow \in BOOLEAN : AlwaysAllowWrites(always_allow)
    \/ \E node_name \in NodeNames, read_only \in BOOLEAN :
           NodeSetReadOnly(node_name, read_only)
    \/ \E relid \in WritableOids : AddReplicaIdentity(relid)
    \/ StartTransaction(InvalidRepNodeId)
    \/ CommitTransaction
    \/ \E activated \in BOOLEAN, locks \in {"ok", "error"} :
           ExecutorStart(activated, locks)

SpecGate == InitGate /\ [][NextGate]_vars

(***************************************************************************)
(* The queue inserts of several backends.  bdr_queue_ddl_command and the   *)
(* insert of bdr_queue_dropped_objects first evaluate                      *)
(* pg_current_xlog_location() into values[0] and then call                 *)
(* simple_heap_insert; no lock is held from the one to the other, so the   *)
(* steps of different backends interleave, and the insert does not move    *)
(* the write location that the next call reads.  Here the                  *)
(* queue tables hold the rows of all backends, and appended keeps the      *)
(* order of the inserts over both tables.                                  *)
(***************************************************************************)
QueueTables == {"bdr_queued_commands", "bdr_queued_drops"}

\* values[0] = pg_current_xlog_location(NULL)
ReadXlogLocation(b, table) ==
    /\ pending_insert[b].pc = "idle"
    /\ Len(appended)
           + Cardinality({ o \in Backends : pending_insert[o].pc = "insert" })
           < MaxRows
    /\ pending_insert' = [pending_insert EXCEPT
                             ![b] = [pc |-> "insert", table |-> table, lsn |-> xlog]]
    /\ UNCHANGED << in_bdr_replicate_ddl_command, replication_origin_id,
                    skip_ddl_replication, bdr_truncated_tables,
                    bdr_queued_commands, bdr_queued_drops, xlog, xact, stack,
                    appended, xacts, heap, fp, last >>
    /\ UNCHANGED gate
    /\ UNCHANGED trigdesc

\* heap_form_tuple, simple_heap_insert: the row goes in with the location
\* read before.
HeapInsert(b) ==
    /\ pending_insert[b].pc = "insert"
    /\ LET lsn == pending_insert[b].lsn
           table == pending_insert[b].table
       IN /\ IF table = "bdr_queued_commands"
             THEN /\ bdr_queued_commands' =
                         bdr_queue_ddl_command(bdr_queued_commands, lsn, "SQL",
                                               "CREATE TABLE public.b ()")
                  /\ UNCHANGED bdr_queued_drops
             ELSE /\ bdr_queued_drops' =
                         Append(bdr_queued_drops,
                                [lsn |-> lsn,
                                 dropped_objects |-> DroppedObjsLoop(<<DropOriginal>>)])
                  /\ UNCHANGED bdr_queued_commands
          /\ appended' = Append(appended, [backend |-> b, table |-> table, lsn |-> lsn])
    /\ pending_insert' = [pending_insert EXCEPT ![b] = NoInsert]
    /\ UNCHANGED << in_bdr_replicate_ddl_command, replication_origin_id,
                    skip_ddl_replication, bdr_truncated_tables, xlog, xact,
                    stack, xacts, heap, fp, last >>
    /\ UNCHANGED gate
    /\ UNCHANGED trigdesc

NextWal ==
    \/ \E b \in Backends, table \in QueueTables : ReadXlogLocation(b, table)
    \/ \E b \in Backends : HeapInsert(b)
    \/ XLogWrite

SpecWal == Init /\ [][NextWal]_vars

(***************************************************************************)
(* find_pkey_tuple and the transactions that write rows matching its key   *)
(* while it runs.  A row version is [xmin, xmax, data]: the inserting and  *)
(* the deleting or updating transaction (InvalidTransactionId: none) and   *)
(* two columns, both holding the id of the transaction that wrote the      *)
(* version.  Versions are never changed in place apart from xmax.  The     *)
(* index is unique: a transaction inserts a row with the key only when no  *)
(* other version can still be or become live.  The heap is followed until  *)
(* the call ends.                                                          *)
(***************************************************************************)
Version(x) == [xmin |-> x, xmax |-> InvalidTransactionId, data |-> <<x, x>>]

\* A wait that ends only when the transaction commits.
Finished_CommittedOnly(xs, x) == xs[x] = "committed"

\* The transaction is no longer running: XactLockTableWait(x) returns.
Finished(xs, x) == xs[x] \in {"committed", "aborted"}

\* The version can no longer be seen by anyone: inserter aborted or deleter
\* committed.
Dead(xs, v) ==
    \/ xs[v.xmin] = "aborted"
    \/ v.xmax # InvalidTransactionId /\ xs[v.xmax] = "committed"

CallRunning == fp.pc \notin {"returned", "error"}

\* Everything but xacts, heap and fp.
FindFrame ==
    /\ UNCHANGED queueing
    /\ UNCHANGED gate
    /\ UNCHANGED trigdesc
    /\ UNCHANGED << pending_insert, appended >>

\* Transaction ids are handed out in order.
BeginXact(x) ==
    /\ CallRunning
    /\ xacts[x] = "unused"
    /\ \A y \in Xids : y < x => xacts[y] # "unused"
    /\ xacts' = [xacts EXCEPT ![x] = "in_progress"]
    /\ UNCHANGED << heap, fp >>
    /\ FindFrame

CommitXact(x) ==
    /\ CallRunning
    /\ xacts[x] = "in_progress"
    /\ xacts' = [xacts EXCEPT ![x] = "committed"]
    /\ UNCHANGED << heap, fp >>
    /\ FindFrame

AbortXact(x) ==
    /\ CallRunning
    /\ xacts[x] = "in_progress"
    /\ xacts' = [xacts EXCEPT ![x] = "aborted"]
    /\ UNCHANGED << heap, fp >>
    /\ FindFrame

\* x can delete or update version i: it sees it, nobody else is deleting it,
\* and the caller of find_pkey_tuple holds no row lock on it.
CanModify(x, i) ==
    /\ xacts[x] = "in_progress"
    /\ i \in 1..Len(heap)
    /\ heap[i].xmin = x \/ xacts[heap[i].xmin] = "committed"
    /\ heap[i].xmax = InvalidTransactionId \/ xacts[heap[i].xmax] = "aborted"
    /\ fp.locked # i

InsertRow(x) ==
    /\ CallRunning
    /\ xacts[x] = "in_progress"
    /\ Len(heap) < MaxVersions
    /\ \A i \in 1..Len(heap) : Dead(xacts, heap[i]) \/ heap[i].xmax = x
    /\ heap' = Append(heap, Version(x))
    /\ UNCHANGED << xacts, fp >>
    /\ FindFrame

DeleteRow(x, i) ==
    /\ CallRunning
    /\ CanModify(x, i)
    /\ heap' = [heap EXCEPT ![i].xmax = x]
    /\ UNCHANGED << xacts, fp >>
    /\ FindFrame

UpdateRow(x, i) ==
    /\ CallRunning
    /\ CanModify(x, i)
    /\ Len(heap) < MaxVersions
    /\ heap' = Append([heap EXCEPT ![i].xmax = x], Version(x))
    /\ UNCHANGED << xacts, fp >>
    /\ FindFrame

\* HeapTupleSatisfiesDirty: whether the version is visible, and the xmin and
\* xmax it leaves in the snapshot.
HeapTupleSatisfiesDirty(xs, v) ==
    IF xs[v.xmin] = "in_progress"
    THEN [visible |-> TRUE, xmin |-> v.xmin, xmax |-> InvalidTransactionId]
    ELSE IF xs[v.xmin] = "aborted"
    THEN [visible |-> FALSE, xmin |-> InvalidTransactionId, xmax |-> InvalidTransactionId]
    ELSE IF v.xmax = InvalidTransactionId
    THEN [visible |-> TRUE, xmin |-> InvalidTransactionId, xmax |-> InvalidTransactionId]
    ELSE IF xs[v.xmax] = "in_progress"
    THEN [visible |-> TRUE, xmin |-> InvalidTransactionId, xmax |-> v.xmax]
    ELSE IF xs[v.xmax] = "aborted"
    THEN [visible |-> TRUE, xmin |-> InvalidTransactionId, xmax |-> InvalidTransactionId]
    ELSE [visible |-> FALSE, xmin |-> InvalidTransactionId, xmax |-> InvalidTransactionId]

\* The index entries of the key whose version the dirty snapshot sees, in
\* index order.
RECURSIVE ScanMatches(_, _, _)
ScanMatches(xs, h, i) ==
    IF i > Len(h) THEN << >>
    ELSE IF HeapTupleSatisfiesDirty(xs, h[i]).visible
    THEN <<i>> \o ScanMatches(xs, h, i + 1)
    ELSE ScanMatches(xs, h, i + 1)

\* index_getnext taking the last match.
index_getnext_Last(matches) ==
    IF matches = << >> THEN 0 ELSE matches[Len(matches)]

\* index_getnext(scan, ForwardScanDirection), called once: the first match,
\* 0 for NULL.
index_getnext(matches) ==
    IF matches = << >> THEN 0 ELSE Head(matches)

\* ExecStoreTuple that takes the second column from the newest version.
ExecStoreTuple_Mixed(h, tid) == <<h[tid].data[1], h[Len(h)].data[2]>>

\* ExecStoreTuple, ExecMaterializeSlot: the slot gets a copy of the tuple.
ExecStoreTuple(h, tid) == h[tid].data

\* The xwait computation looking at snap.xmin only.
XWait_XminOnly(snap) == snap.xmin

\* xwait = TransactionIdIsValid(snap.xmin) ? snap.xmin : snap.xmax
XWait(snap) ==
    IF snap.xmin # InvalidTransactionId THEN snap.xmin ELSE snap.xmax

\* The HTSU_Result values heap_lock_tuple can report for the version, once
\* any transaction deleting or updating it has finished: updated if that
\* transaction committed, lockable otherwise; HeapTupleSelfUpdated stands
\* for every result the caller does not expect.
heap_lock_tuple(xs, v) ==
    (IF v.xmax # InvalidTransactionId /\ xs[v.xmax] = "committed"
     THEN {"HeapTupleUpdated"}
     ELSE {"HeapTupleMayBeUpdated"}) \cup {"HeapTupleSelfUpdated"}

\* switch (res): where find_pkey_tuple goes on.
LockSwitch(res) ==
    CASE res = "HeapTupleMayBeUpdated" -> "endscan"
      [] res = "HeapTupleUpdated" -> "scan"
      [] OTHER -> "error"

\* find_pkey_tuple(skey, rel, idxrel, slot, lock, mode) is called:
\* InitDirtySnapshot, index_beginscan.
FindCall(lock) ==
    /\ fp.pc = "idle"
    /\ fp' = [NoFind EXCEPT !.pc = "scan", !.lock = lock]
    /\ UNCHANGED << xacts, heap >>
    /\ FindFrame

\* retry: index_rescan, index_getnext, and on a match the copy into the slot
\* and xwait.  The scan tests the versions in index order up to the first
\* visible one, and snap holds what the last test left in it: with no match
\* that is the test of the last version, which is not visible.
FindScan ==
    /\ fp.pc = "scan"
    /\ LET matches == ScanMatches(xacts, heap, 1)
           tid == index_getnext(matches)
       IN IF tid = 0
          THEN LET snap == IF heap = << >> THEN fp.snap
                           ELSE HeapTupleSatisfiesDirty(xacts, heap[Len(heap)])
               IN fp' = [fp EXCEPT
                            !.found = FALSE, !.matches = matches,
                            !.snap = [xmin |-> snap.xmin, xmax |-> snap.xmax],
                            !.pc = "endscan"]
          ELSE LET snap == HeapTupleSatisfiesDirty(xacts, heap[tid])
                   xwait == XWait(snap)
               IN fp' = [fp EXCEPT
                            !.found = TRUE, !.matches = matches,
                            !.snap = [xmin |-> snap.xmin, xmax |-> snap.xmax],
                            !.tid = tid, !.slot = ExecStoreTuple(heap, tid),
                            !.xwait = xwait,
                            !.pc = IF xwait # InvalidTransactionId THEN "wait"
                                   ELSE IF fp.lock THEN "lock"
                                   ELSE "endscan"]
    /\ UNCHANGED << xacts, heap >>
    /\ FindFrame

\* XactLockTableWait(xwait) returns when xwait has finished; goto retry.
FindWait ==
    /\ fp.pc = "wait"
    /\ Finished(xacts, fp.xwait)
    /\ fp' = [fp EXCEPT !.pc = "scan", !.retried = TRUE]
    /\ UNCHANGED << xacts, heap >>
    /\ FindFrame

\* heap_lock_tuple on slot->tts_tuple->t_self, which waits for a transaction
\* that is deleting or updating the version, and the switch on its result.
FindLock ==
    /\ fp.pc = "lock"
    /\ heap[fp.tid].xmax # InvalidTransactionId
           => Finished(xacts, heap[fp.tid].xmax)
    /\ \E res \in heap_lock_tuple(xacts, heap[fp.tid]) :
          fp' = [fp EXCEPT
                    !.res = res,
                    !.locked = IF res = "HeapTupleMayBeUpdated" THEN fp.tid ELSE 0,
                    !.retried = fp.retried \/ res = "HeapTupleUpdated",
                    !.pc = LockSwitch(res)]
    /\ UNCHANGED << xacts, heap >>
    /\ FindFrame

\* index_endscan; return found.
FindReturn ==
    /\ fp.pc = "endscan"
    /\ fp' = [fp EXCEPT !.pc = "returned"]
    /\ UNCHANGED << xacts, heap >>
    /\ FindFrame

FindStep == FindScan \/ FindWait \/ FindLock \/ FindReturn

\* A row with the key may exist, inserted by a transaction that committed
\* long ago.
InitFind ==
    /\ GateLoaded("NULL")
    /\ queryDesc = NoStmt
    /\ in_bdr_replicate_ddl_command = FALSE
    /\ replication_origin_id = 1
    /\ skip_ddl_replication = "off"
    /\ bdr_truncated_tables = << >>
    /\ bdr_queued_commands = << >>
    /\ bdr_queued_drops = << >>
    /\ xlog = 0
    /\ xact = "active"
    /\ stack = << >>
    /\ trigdesc = << >>
    /\ last = Obs("init", << >>)
    /\ pending_insert = [b \in Backends |-> NoInsert]
    /\ appended = << >>
    /\ xacts = NoXacts
    /\ heap \in { << >>, << Version(OldXid) >> }
    /\ fp = NoFind

NextFind ==
    \/ \E x \in Xids : BeginXact(x)
    \/ \E x \in Xids : CommitXact(x)
    \/ \E x \in Xids : AbortXact(x)
    \/ \E x \in Xids : InsertRow(x)
    \/ \E x \in Xids, i \in 1..MaxVersions : DeleteRow(x, i)
    \/ \E x \in Xids, i \in 1..MaxVersions : UpdateRow(x, i)
    \/ \E lock \in BOOLEAN : FindCall(lock)
    \/ FindScan
    \/ FindWait
    \/ FindLock
    \/ FindReturn

SpecFind == InitFind /\ [][NextFind]_vars

\* The backend running find_pkey_tuple is scheduled, and every concurrent
\* transaction eventually commits or aborts.
SpecFindFair ==
    /\ SpecFind
    /\ WF_vars(FindStep)
    /\ \A x \in Xids : WF_vars(CommitXact(x) \/ AbortXact(x))

(***************************************************************************)
(* The TRUNCATE trigger of a table.  trigdesc is the trigger array of      *)
(* table t1 as the relation cache builds it, in trigger-name order; a      *)
(* trigger is its event set (tgtype) and its function (tgfoid).  A new     *)
(* trigger takes the place its name gives it: any position, since the      *)
(* names of the user's triggers and the oid in the name of an internal     *)
(* trigger are arbitrary.                                                  *)
(***************************************************************************)
MaxTriggers == 3    \* triggers on the table

TriggerTable == CHOOSE oid \in TruncOids : get_rel_name(oid) = "t1"

\* The trigger that bdr_create_truncate_trigger creates, and the triggers
\* that a user creates: on UPDATE or on TRUNCATE, calling another function.
BdrTruncateTrigger ==
    [tgtype |-> {"TRUNCATE"}, tgfoid |-> "bdr.queue_truncate",
     tgisinternal |-> TRUE]
UserTriggers ==
    { [tgtype |-> events, tgfoid |-> "audit", tgisinternal |-> FALSE] :
          events \in { {"UPDATE"}, {"TRUNCATE"} } }

TRIGGER_FOR_TRUNCATE(tgtype) == "TRUNCATE" \in tgtype

\* CreateTrigger and the rebuild of the trigger array.
CreateTrigger(triggers, pos, t) ==
    SubSeq(triggers, 1, pos - 1) \o << t >> \o SubSeq(triggers, pos, Len(triggers))

\* The loop that looks for an existing trigger: i counts the iterations and
\* trigger is the position the pointer is at, which the loop advances only
\* past a TRUNCATE trigger of another function.  TRUE when it returns from
\* the function, FALSE when the loop ends.
RECURSIVE ExistingTriggerLoop(_, _, _, _)
ExistingTriggerLoop(triggers, i, trigger, funcoid) ==
    IF ~(i < Len(triggers)) THEN FALSE
    ELSE IF ~TRIGGER_FOR_TRUNCATE(triggers[trigger].tgtype)
    THEN ExistingTriggerLoop(triggers, i + 1, trigger, funcoid)
    ELSE IF triggers[trigger].tgfoid = funcoid THEN TRUE
    ELSE ExistingTriggerLoop(triggers, i + 1, trigger + 1, funcoid)

\* The table's triggers after the call.  (deleteDependencyRecordsForClass
\* finds the one dependency of the new trigger: no error.)
bdr_create_truncate_trigger(triggers, pos) ==
    LET funcoid == "bdr.queue_truncate"
    IN IF triggers # << >> /\ ExistingTriggerLoop(triggers, 0, 1, funcoid)
       THEN triggers
       ELSE CreateTrigger(triggers, pos, BdrTruncateTrigger)

\* bdr_internal_create_truncate_trigger(relid), or the CREATE TABLE event
\* trigger bdr_truncate_trigger_add.
CreateTruncateTrigger(pos) ==
    /\ xact = "active"
    /\ LET new == bdr_create_truncate_trigger(trigdesc, pos)
       IN /\ Len(new) <= MaxTriggers
          /\ trigdesc' = new
    /\ last' = Obs("bdr_create_truncate_trigger", trigdesc)
    /\ UNCHANGED gate
    /\ UNCHANGED concurrency
    /\ UNCHANGED << in_bdr_replicate_ddl_command, replication_origin_id,
                    skip_ddl_replication, bdr_truncated_tables,
                    bdr_queued_commands, bdr_queued_drops, xlog, xact, stack >>

\* CREATE TRIGGER by a user.
CreateUserTrigger(t, pos) ==
    /\ xact = "active"
    /\ Len(trigdesc) < MaxTriggers
    /\ trigdesc' = CreateTrigger(trigdesc, pos, t)
    /\ last' = Obs("CreateTrigger", t)
    /\ UNCHANGED gate
    /\ UNCHANGED concurrency
    /\ UNCHANGED << in_bdr_replicate_ddl_command, replication_origin_id,
                    skip_ddl_replication, bdr_truncated_tables,
                    bdr_queued_commands, bdr_queued_drops, xlog, xact, stack >>

\* The executor fires the table's TRUNCATE triggers in array order; those
\* of bdr.queue_truncate call bdr_queue_truncate.
RECURSIVE ExecCallTriggers(_, _, _)
ExecCallTriggers(triggers, tables, relid) ==
    IF triggers = << >> THEN tables
    ELSE IF /\ TRIGGER_FOR_TRUNCATE(Head(triggers).tgtype)
            /\ Head(triggers).tgfoid = "bdr.queue_truncate"
    THEN ExecCallTriggers(Tail(triggers), bdr_queue_truncate(tables, relid), relid)
    ELSE ExecCallTriggers(Tail(triggers), tables, relid)

\* TRUNCATE of the table.
TruncateTable ==
    /\ Running
    /\ LET new == ExecCallTriggers(trigdesc, bdr_truncated_tables, TriggerTable)
       IN /\ Len(new) <= MaxBatch
          /\ bdr_truncated_tables' = new
    /\ last' = Obs("ExecuteTruncate", TriggerTable)
    /\ UNCHANGED gate
    /\ UNCHANGED concurrency
    /\ UNCHANGED << in_bdr_replicate_ddl_command, replication_origin_id,
                    skip_ddl_replication, bdr_queued_commands, bdr_queued_drops,
                    xlog, xact, stack, trigdesc >>

\* The session is in a transaction, with both guards clear; the table has
\* been created and has no trigger yet.
InitTrigger ==
    /\ NoConcurrency
    /\ GateLoaded("NULL")
    /\ queryDesc = NoStmt
    /\ in_bdr_replicate_ddl_command = FALSE
    /\ replication_origin_id = InvalidRepNodeId
    /\ skip_ddl_replication = "off"
    /\ bdr_truncated_tables = << >>
    /\ bdr_queued_commands = << >>
    /\ bdr_queued_drops = << >>
    /\ xlog = 0
    /\ xact = "active"
    /\ stack = << >>
    /\ trigdesc = << >>
    /\ last = Obs("init", << >>)

NextTrigger ==
    \/ \E pos \in 1..(Len(trigdesc) + 1) : CreateTruncateTrigger(pos)
    \/ \E t \in UserTriggers, pos \in 1..(Len(trigdesc) + 1) :
           CreateUserTrigger(t, pos)
    \/ TruncateTable

SpecTrigger == InitTrigger /\ [][NextTrigger]_vars

(***************************************************************************)
(* The scan keys of a row.  The result relation has two columns, a (int4)  *)
(* and b (text); an index is the fields of its IndexInfo and pg_index row  *)
(* that the functions read: ii_Unique, ii_Expressions (<< >> is NIL) and   *)
(* indkey, which holds the column number of every index column and 0 for   *)
(* an expression column.  A row is tup->values and tup->isnull.  A scan    *)
(* key is the array of its entries; the NULL pointer is << >>.             *)
(***************************************************************************)
MaxIndices == 2     \* ri_NumIndices: indexes of the result relation

BTEqualStrategyNumber == 3

\* get_opcode of the equality operator of each column's operator class.
EqualityProc == << "int4eq", "texteq" >>

IdxUnique(indkey) ==
    [ii_Unique |-> TRUE, ii_Expressions |-> << >>, indkey |-> indkey]
IdxNotUnique(indkey) ==
    [ii_Unique |-> FALSE, ii_Expressions |-> << >>, indkey |-> indkey]
IdxUniqueExpression ==
    [ii_Unique |-> TRUE, ii_Expressions |-> << "lower(b)" >>, indkey |-> <<1, 0>>]
IdxNotUniqueExpression ==
    [ii_Unique |-> FALSE, ii_Expressions |-> << "lower(b)" >>, indkey |-> <<0>>]

Indexes ==
    { IdxUnique(<<1>>), IdxUnique(<<2>>), IdxUnique(<<2, 1>>),
      IdxNotUnique(<<2>>), IdxNotUnique(<<1, 2>>),
      IdxUniqueExpression, IdxNotUniqueExpression }

\* The rows: a null column has the zero Datum as value.
Tuples ==
    { [values |-> << IF na THEN "0" ELSE "a1", IF nb THEN "0" ELSE "b1" >>,
       isnull |-> << na, nb >>] : na \in BOOLEAN, nb \in BOOLEAN }

ScanKeyInit(attributeNumber, strategy, procedure, argument) ==
    [sk_flags |-> {}, sk_attno |-> attributeNumber, sk_strategy |-> strategy,
     sk_func |-> procedure, sk_argument |-> argument]

\* The loop of build_index_scan_key from attoff on, with the entries and
\* the flag it has so far.
RECURSIVE ScanKeyLoop(_, _, _, _, _)
ScanKeyLoop(indkey, tup, attoff, skey, hasnulls) ==
    IF ~(attoff < Len(indkey)) THEN [skey |-> skey, hasnulls |-> hasnulls]
    ELSE LET pkattno == attoff + 1
             mainattno == indkey[attoff + 1]
             entry == ScanKeyInit(pkattno, BTEqualStrategyNumber,
                                  EqualityProc[mainattno],
                                  tup.values[(mainattno - 1) + 1])
         IN IF tup.isnull[(mainattno - 1) + 1]
            THEN ScanKeyLoop(indkey, tup, attoff + 1,
                     Append(skey, [entry EXCEPT !.sk_flags = @ \cup {"SK_ISNULL"}]),
                     TRUE)
            ELSE ScanKeyLoop(indkey, tup, attoff + 1, Append(skey, entry),
                             hasnulls)

\* build_index_scan_key(skey, rel, idxrel, tup): the entries written to skey
\* and the value returned.  (Every operator class has its equality
\* operator: no elog.)
build_index_scan_key(idxrel, tup) ==
    ScanKeyLoop(idxrel.indkey, tup, 0, << >>, FALSE)

\* IndexScanKey that keeps a key that has nulls.
IndexScanKey_KeepsNulls(ii, tup) ==
    IF ~ii.ii_Unique \/ ii.ii_Expressions # << >> THEN << >>
    ELSE build_index_scan_key(ii, tup).skey

\* The body of the loop of build_index_scan_keys: scan_keys[i] for index ii.
IndexScanKey(ii, tup) ==
    IF ~ii.ii_Unique \/ ii.ii_Expressions # << >> THEN << >>
    ELSE LET built == build_index_scan_key(ii, tup)
         IN IF built.hasnulls THEN << >> ELSE built.skey

\* build_index_scan_keys(estate, scan_keys, tup): the array scan_keys.
RECURSIVE build_index_scan_keys(_, _, _)
build_index_scan_keys(indexes, scan_keys, tup) ==
    LET i == Len(scan_keys)
    IN IF ~(i < Len(indexes)) THEN scan_keys
       ELSE build_index_scan_keys(indexes,
                Append(scan_keys, IndexScanKey(indexes[i + 1], tup)), tup)

\* The caller has the indexes of the result relation and a row.
BuildIndexScanKeys ==
    /\ last.op = "input"
    /\ last' = Obs("build_index_scan_keys",
                   [indexes |-> last.arg.indexes, tup |-> last.arg.tup,
                    scan_keys |-> build_index_scan_keys(last.arg.indexes, << >>,
                                                        last.arg.tup)])
    /\ UNCHANGED gate
    /\ UNCHANGED concurrency
    /\ UNCHANGED << in_bdr_replicate_ddl_command, replication_origin_id,
                    skip_ddl_replication, bdr_truncated_tables,
                    bdr_queued_commands, bdr_queued_drops, xlog, xact, stack,
                    trigdesc >>

\* build_index_scan_key called for one index whose columns are all plain
\* columns (the replica identity index).
BuildIndexScanKey(i) ==
    /\ last.op = "input"
    /\ i \in 1..Len(last.arg.indexes)
    /\ last.arg.indexes[i].ii_Expressions = << >>
    /\ last' = Obs("build_index_scan_key",
                   [idxrel |-> last.arg.indexes[i], tup |-> last.arg.tup,
                    out |-> build_index_scan_key(last.arg.indexes[i],
                                                 last.arg.tup)])
    /\ UNCHANGED gate
    /\ UNCHANGED concurrency
    /\ UNCHANGED << in_bdr_replicate_ddl_command, replication_origin_id,
                    skip_ddl_replication, bdr_truncated_tables,
                    bdr_queued_commands, bdr_queued_drops, xlog, xact, stack,
                    trigdesc >>

\* An apply worker, in a transaction, about to look a row up.
InitScanKeys ==
    /\ NoConcurrency
    /\ GateLoaded("NULL")
    /\ queryDesc = NoStmt
    /\ in_bdr_replicate_ddl_command = FALSE
    /\ replication_origin_id = 1
    /\ skip_ddl_replication = "off"
    /\ bdr_truncated_tables = << >>
    /\ bdr_queued_commands = << >>
    /\ bdr_queued_drops = << >>
    /\ xlog = 0
    /\ xact = "active"
    /\ stack = << >>
    /\ trigdesc = << >>
    /\ \E indexes \in SeqsUpTo(Indexes, MaxIndices), tup \in Tuples :
           last = Obs("input", [indexes |-> indexes, tup |-> tup])

NextScanKeys ==
    \/ BuildIndexScanKeys
    \/ \E i \in 1..MaxIndices : BuildIndexScanKey(i)

SpecScanKeys == InitScanKeys /\ [][NextScanKeys]_vars

(***************************************************************************)
(* Properties.                                                             *)
(***************************************************************************)
Callbacks == { "bdr_queue_truncate", "bdr_queue_ddl_commands",
               "bdr_queue_dropped_objects" }

GuardSet(o) == o.in_ddl \/ replication_origin_id # InvalidRepNodeId

\* The rows an operation appended to a queue that held n rows before it.
Appended(q, n) == SubSeq(q, n + 1, Len(q))

NothingAppended ==
    /\ Len(bdr_queued_commands) = last.cmds
    /\ Len(bdr_queued_drops) = last.drops
    /\ bdr_truncated_tables = last.batch

\* C1: a successful bdr_replicate_ddl_command(text) appends exactly one row
\* for its command, ("SQL", text); every callback fired while the command is
\* executed locally appends nothing to the queues and adds nothing to the
\* truncate list, so that on return nothing but "SQL" rows of
\* bdr_replicate_ddl_command calls has been queued and the list is as it was.
C1_ReplicateQueuesOneRow ==
    /\ last.op = "replicate_queue" =>
          Appended(bdr_queued_commands, last.cmds) =
              << [lsn |-> last.xlog, perpetrator |-> CurrentUser,
                  command_tag |-> "SQL", command |-> last.frame.query] >>
    /\ (last.op \in Callbacks /\ last.depth > 0) => NothingAppended
    /\ last.op = "replicate_return" =>
          /\ \A i \in (last.frame.cmds + 1)..Len(bdr_queued_commands) :
                 bdr_queued_commands[i].command_tag = "SQL"
          /\ Len(bdr_queued_drops) = last.frame.drops
          /\ Len(bdr_truncated_tables) = last.frame.batch

\* C2: in_bdr_replicate_ddl_command is false whenever no
\* bdr_replicate_ddl_command call is in progress: it is cleared on return
\* and on every failure of the queue append or of the local execution.
C2_GuardClearOutsideCall ==
    stack = << >> => in_bdr_replicate_ddl_command = FALSE

\* A call failed while executing its command, and the guard is clear.
C2_Witness ==
    /\ last.op = "replicate_catch"
    /\ last.frame.pc = "exec"
    /\ last.in_ddl
    /\ stack = << >>
    /\ ~in_bdr_replicate_ddl_command

\* The names of the tables that carry the TRUNCATE trigger.
BareName == [oid \in TruncOids |-> CASE oid = 1 -> "t1" [] oid = 2 -> "t2"]
QualifiedName ==
    [oid \in TruncOids |-> CASE oid = 1 -> "public.t1" [] oid = 2 -> "public.t2"]

\* name[t] for the tables t of a list, in list order, separated by ", ".
RECURSIVE CommaList(_, _)
CommaList(tables, name) ==
    IF Len(tables) = 0 THEN ""
    ELSE IF Len(tables) = 1 THEN name[tables[1]]
    ELSE CommaList(SubSeq(tables, 1, Len(tables) - 1), name)
             \o ", " \o name[tables[Len(tables)]]

TruncateRow(text) ==
    [lsn |-> last.xlog, perpetrator |-> CurrentUser,
     command_tag |-> "TRUNCATE (automatic)", command |-> text]

\* C5 as claimed: pre-commit appends exactly one row, tagged
\* "TRUNCATE (automatic)", whose text is "TRUNCATE TABLE ONLY " followed by
\* the bare names of the registered tables in registration order (t1 then t2:
\* "TRUNCATE TABLE ONLY t1, t2"); nothing with an empty list.
C5_BareNames ==
    last.op = "CommitTransaction" =>
        /\ Appended(bdr_queued_commands, last.cmds) =
              IF last.batch = << >> THEN << >>
              ELSE << TruncateRow("TRUNCATE TABLE ONLY "
                                      \o CommaList(last.batch, BareName)) >>
        /\ Len(bdr_queued_drops) = last.drops

\* C5 amended: a truncate callback with both guards clear registers its
\* table at the end of the list, and pre-commit appends exactly one row,
\* tagged "TRUNCATE (automatic)", whose text is "TRUNCATE TABLE ONLY "
\* followed by the schema-qualified names of the registered tables in
\* registration order, separated by ", " (public.t1 then public.t2:
\* "TRUNCATE TABLE ONLY public.t1, public.t2"), and empties the list; with an
\* empty list it appends nothing.
C5_OneTruncateRow ==
    /\ (last.op = "bdr_queue_truncate" /\ ~GuardSet(last)) =>
          bdr_truncated_tables = Append(last.batch, last.arg)
    /\ last.op = "CommitTransaction" =>
          /\ Appended(bdr_queued_commands, last.cmds) =
                IF last.batch = << >> THEN << >>
                ELSE << TruncateRow("TRUNCATE TABLE ONLY "
                                        \o CommaList(last.batch, QualifiedName)) >>
          /\ Len(bdr_queued_drops) = last.drops
          /\ bdr_truncated_tables = << >>

\* t1 then t2 were truncated in one transaction, which has committed.
C5_Witness ==
    /\ last.op = "CommitTransaction"
    /\ last.batch = <<1, 2>>
    /\ Len(bdr_queued_commands) = last.cmds + 1
    /\ bdr_queued_commands[Len(bdr_queued_commands)].command =
           "TRUNCATE TABLE ONLY public.t1, public.t2"

\* C6 as claimed: bdr_queue_ddl_command appends no row whenever either guard
\* is set when it is called (from bdr_replicate_ddl_command, or from
\* bdr_finish_truncate at pre-commit).
C6_EnqueueChecksGuards ==
    (last.op \in {"replicate_queue", "CommitTransaction"} /\ GuardSet(last)) =>
        Len(bdr_queued_commands) = last.cmds

\* C6 amended: the three callbacks are silent no-ops, appending no row,
\* registering no table and raising no error, whenever either guard is set;
\* bdr_queue_ddl_command itself looks at no guard: called by
\* bdr_replicate_ddl_command with the guard set, it appends its row.
C6_CallbacksCheckGuards ==
    /\ (last.op \in Callbacks /\ GuardSet(last)) =>
          /\ NothingAppended
          /\ xact = "active"
          /\ Len(stack) = last.depth
    /\ last.op = "replicate_queue" =>
          /\ last.in_ddl
          /\ Len(bdr_queued_commands) = last.cmds + 1

\* A command was reported to the post-DDL callback while the guard was set.
C6_Witness ==
    /\ last.op = "bdr_queue_ddl_commands"
    /\ last.arg = <<CmdPlain>>
    /\ last.in_ddl
    /\ replication_origin_id = InvalidRepNodeId
    /\ skip_ddl_replication = "off"

\* C7: while bdr.skip_ddl_replication is on, no row is appended to a queue
\* table by any entry point: the callbacks, pre-commit's truncate notice,
\* bdr_replicate_ddl_command.
C7_SkipSuppressesAll ==
    (/\ skip_ddl_replication = "on"
     /\ last.op \in Callbacks \cup {"CommitTransaction", "replicate_queue"}) =>
        /\ Len(bdr_queued_commands) = last.cmds
        /\ Len(bdr_queued_drops) = last.drops

IsTrue(row, i) == ~row.nulls[i] /\ row.values[i]

\* A drop-event record flagged original or normal, and the descriptor
\* (object_type, address_names, address_args) queued for it.
OriginalOrNormal(row) == IsTrue(row, 1) \/ IsTrue(row, 2)

DroppedObject(row) ==
    [values |-> <<row.values[3], row.values[4], row.values[5]>>,
     nulls |-> <<row.nulls[3], row.nulls[4], row.nulls[5]>>]

KeptDrops(rows) ==
    LET kept == SelectSeq(rows, OriginalOrNormal)
    IN [i \in 1..Len(kept) |-> DroppedObject(kept[i])]

\* C8: with both guards clear and the GUC off, bdr_queue_dropped_objects
\* appends exactly one bdr_queued_drops row whose payload is, in the
\* reported order, the records flagged original or normal, if there is one,
\* and nothing otherwise (so a record flagged neither is in no payload); with
\* a guard set or the GUC on it appends nothing.
C8_DropsPayload ==
    last.op = "bdr_queue_dropped_objects" =>
        /\ Appended(bdr_queued_drops, last.drops) =
              IF /\ ~GuardSet(last)
                 /\ skip_ddl_replication = "off"
                 /\ Len(KeptDrops(last.arg)) > 0
              THEN << [lsn |-> last.xlog,
                       dropped_objects |-> KeptDrops(last.arg)] >>
              ELSE << >>
        /\ Len(bdr_queued_commands) = last.cmds

\* A statement dropped an internal object and, after it, an original one;
\* one row with the original one alone was queued.
C8_Witness ==
    /\ last.op = "bdr_queue_dropped_objects"
    /\ last.arg = <<DropInternal, DropOriginal>>
    /\ ~GuardSet(last)
    /\ skip_ddl_replication = "off"
    /\ Len(bdr_queued_drops) = last.drops + 1
    /\ bdr_queued_drops[Len(bdr_queued_drops)].dropped_objects =
           << DroppedObject(DropOriginal) >>

\* C9: no object of a temporary schema is in the payload of a
\* bdr_queued_drops row.
C9_NoTempObjectQueued ==
    \A i \in 1..Len(bdr_queued_drops) :
        \A j \in 1..Len(bdr_queued_drops[i].dropped_objects) :
            LET obj == bdr_queued_drops[i].dropped_objects[j]
            IN ~(Len(obj.values[2]) > 0 /\ obj.values[2][1] = "pg_temp")

\* A command record that is neither in the temporary schema nor in an
\* extension.
KeptCommand(row) ==
    /\ ~(~row.nulls[3] /\ row.values[3] = "pg_temp")
    /\ ~row.values[5]

\* C10: with both guards clear and the GUC off, bdr_queue_ddl_commands
\* appends one bdr_queued_commands row (tag, expanded command) for each
\* reported record that is neither in the temporary schema nor flagged
\* in-extension, in the reported order, and nothing for the others; with a
\* guard set or the GUC on it appends nothing.
C10_DdlRows ==
    last.op = "bdr_queue_ddl_commands" =>
        LET kept == IF ~GuardSet(last) /\ skip_ddl_replication = "off"
                    THEN SelectSeq(last.arg, KeptCommand)
                    ELSE << >>
            new == Appended(bdr_queued_commands, last.cmds)
        IN /\ Len(new) = Len(kept)
           /\ \A i \in 1..Len(kept) :
                 /\ new[i].perpetrator = CurrentUser
                 /\ new[i].command_tag = kept[i].values[1]
                 /\ new[i].command = kept[i].values[6]
                 /\ last.xlog <= new[i].lsn /\ new[i].lsn <= xlog
                 /\ i > 1 => new[i - 1].lsn <= new[i].lsn
           /\ Len(bdr_queued_drops) = last.drops

\* A statement created a schema and then a table: two rows, in that order.
C10_Witness ==
    /\ last.op = "bdr_queue_ddl_commands"
    /\ last.arg = <<CmdNoSchema, CmdPlain>>
    /\ ~GuardSet(last)
    /\ skip_ddl_replication = "off"
    /\ Len(bdr_queued_commands) = last.cmds + 2
    /\ bdr_queued_commands[last.cmds + 1].command_tag = "CREATE SCHEMA"
    /\ bdr_queued_commands[last.cmds + 2].command_tag = "CREATE TABLE"

(***************************************************************************)
(* The write gate.                                                         *)
(***************************************************************************)
GateRan == last.op = "BdrExecutorStart"

\* The handler a delegating gate must call.
NextHandler(prev) == IF prev # "NULL" THEN prev ELSE "standard_ExecutorStart"

Delegated(a) ==
    /\ a.out.result = "delegated"
    /\ a.out.handler = NextHandler(a.prev)
    /\ xact = "active"

StmtKind(qd) ==
    CASE qd.operation = "CMD_INSERT" -> "INSERT"
      [] qd.operation = "CMD_UPDATE" -> "UPDATE"
      [] qd.operation = "CMD_DELETE" -> "DELETE"
      [] OTHER -> "DML"

MissingKeyError(a, relid) ==
    /\ a.out.result = "error"
    /\ a.out.handler = "none"
    /\ a.out.errcode = "ERRCODE_OBJECT_NOT_IN_PREREQUISITE_STATE"
    /\ a.out.errmsg = "Cannot run UPDATE or DELETE on table "
                          \o Str(get_rel_name(relid))
                          \o " because it does not have a PRIMARY KEY."
    /\ xact = "idle"

ReadOnlyError(a, relid) ==
    /\ a.out.result = "error"
    /\ a.out.handler = "none"
    /\ a.out.errcode = "ERRCODE_READ_ONLY_SQL_TRANSACTION"
    /\ a.out.errmsg = StmtKind(a.queryDesc)
                          \o " may only affect UNLOGGED or TEMPORARY tables on read-only BDR node; "
                          \o Str(get_rel_name(relid)) \o " is a regular table"
    /\ xact = "idle"

\* The positions in rels of the relations in S, and the first such relation.
Positions(rels, S) == { i \in 1..Len(rels) : rels[i] \in S }
FirstOf(rels, S) ==
    rels[CHOOSE i \in Positions(rels, S) : \A j \in Positions(rels, S) : i <= j]

\* The durable non-catalog relations without a replica identity index.
WithoutIdentity(a) == { relid \in WritableOids : ~a.replidindex[relid] }

PlainInsert(qd) == qd.operation = "CMD_INSERT" /\ ~qd.hasModifyingCTE

\* C3 as stated: on a replication-enabled database, a writable node and no
\* override, an UPDATE or DELETE whose only target is a durable non-catalog
\* table without a replica identity index is rejected with the error naming
\* the table, a plain INSERT into it is delegated, and the UPDATE or DELETE
\* is delegated when the table has the index.
C3_RejectsWithoutIdentity ==
    (GateRan /\ last.arg.activated /\ ~last.arg.read_only
        /\ ~last.arg.always_allow /\ Len(last.arg.queryDesc.resultRelations) = 1
        /\ last.arg.queryDesc.resultRelations[1] \in WritableOids) =>
        LET a == last.arg
            qd == a.queryDesc
            relid == qd.resultRelations[1]
        IN /\ (qd.operation \in {"CMD_UPDATE", "CMD_DELETE"}
                  /\ relid \in WithoutIdentity(a)) => MissingKeyError(a, relid)
           /\ (PlainInsert(qd) /\ relid \in WithoutIdentity(a)) => Delegated(a)
           /\ (qd.operation \in {"CMD_UPDATE", "CMD_DELETE"}
                  /\ relid \notin WithoutIdentity(a)) => Delegated(a)

\* C3 (amended): on a replication-enabled database, a writable node, no
\* override, and when bdr_locks_check_dml returns without raising: an UPDATE
\* or DELETE is rejected, with the missing-PRIMARY-KEY error naming the first
\* durable non-catalog result relation that has no replica identity index
\* and without calling a handler, if it has such a result relation, and is
\* delegated otherwise; a plain INSERT is delegated whatever its tables.
C3_IdentityRequired ==
    (GateRan /\ last.arg.activated /\ ~last.arg.read_only
        /\ ~last.arg.always_allow /\ last.arg.locks = "ok") =>
        LET a == last.arg
            qd == a.queryDesc
            rels == qd.resultRelations
        IN /\ qd.operation \in {"CMD_UPDATE", "CMD_DELETE"} =>
                 IF Positions(rels, WithoutIdentity(a)) # {}
                 THEN MissingKeyError(a, FirstOf(rels, WithoutIdentity(a)))
                 ELSE Delegated(a)
           /\ PlainInsert(qd) => Delegated(a)

\* An UPDATE of t1, which has no replica identity index, was rejected.
C3_Witness ==
    /\ GateRan
    /\ last.arg.queryDesc.operation = "CMD_UPDATE"
    /\ last.arg.queryDesc.resultRelations = <<1>>
    /\ ~last.arg.read_only
    /\ last.arg.out.errmsg =
           "Cannot run UPDATE or DELETE on table t1 because it does not have a PRIMARY KEY."
    /\ last.arg.out.handler = "none"

\* C4 as stated: on a read-only node every INSERT, UPDATE or DELETE with a
\* durable non-catalog result relation is rejected with the read-only-node
\* error naming the statement kind and such a table, whatever the replica
\* identity, and creates no queue row; one whose result relations are all
\* unlogged, temporary or catalog relations is delegated.
C4_ReadOnlyRejectsAll ==
    (GateRan /\ last.arg.read_only
        /\ last.arg.queryDesc.operation \in {"CMD_INSERT", "CMD_UPDATE", "CMD_DELETE"}) =>
        LET a == last.arg
            rels == a.queryDesc.resultRelations
        IN IF Positions(rels, WritableOids) # {}
           THEN /\ \E i \in Positions(rels, WritableOids) : ReadOnlyError(a, rels[i])
                /\ Len(bdr_queued_commands) <= last.cmds
                /\ Len(bdr_queued_drops) <= last.drops
           ELSE Delegated(a)

\* C4 (amended): with the override unset, on a replication-enabled database
\* and when bdr_locks_check_dml returns without raising, on a read-only node
\* every INSERT, UPDATE or DELETE (a plain INSERT too) with a durable
\* non-catalog result relation is rejected before any handler is called,
\* with the read-only-node error naming the statement kind and the first
\* such relation, whatever the replica identity, and no queue row is
\* created; one whose result relations are all unlogged, temporary or
\* catalog relations is delegated and the queues are left as they were.
C4_ReadOnlyNode ==
    (GateRan /\ last.arg.read_only /\ ~last.arg.always_allow
        /\ last.arg.activated /\ last.arg.locks = "ok"
        /\ last.arg.queryDesc.operation \in {"CMD_INSERT", "CMD_UPDATE", "CMD_DELETE"}) =>
        LET a == last.arg
            rels == a.queryDesc.resultRelations
        IN IF Positions(rels, WritableOids) # {}
           THEN /\ ReadOnlyError(a, FirstOf(rels, WritableOids))
                /\ Len(bdr_queued_commands) <= last.cmds
                /\ Len(bdr_queued_drops) <= last.drops
           ELSE /\ Delegated(a)
                /\ Len(bdr_queued_commands) = last.cmds
                /\ Len(bdr_queued_drops) = last.drops

\* A plain INSERT into t1, which has a replica identity index, was rejected
\* on the read-only node, and the row the transaction had queued is gone.
C4_Witness ==
    /\ GateRan
    /\ last.arg.read_only
    /\ last.arg.queryDesc.operation = "CMD_INSERT"
    /\ ~last.arg.queryDesc.hasModifyingCTE
    /\ last.arg.queryDesc.resultRelations = <<1>>
    /\ last.arg.replidindex[1]
    /\ last.arg.out.errmsg =
           "INSERT may only affect UNLOGGED or TEMPORARY tables on read-only BDR node; t1 is a regular table"
    /\ last.cmds = 1
    /\ bdr_queued_commands = << >>

(***************************************************************************)
(* Log positions of the queue rows.                                        *)
(***************************************************************************)
\* C11 as stated: over the rows of both queue tables, inserted by any
\* backends in any interleaving, a row inserted later carries a strictly
\* larger log position than every row inserted earlier (so no two rows carry
\* the same position).
C11_LsnStrictlyIncreasing ==
    \A i, j \in 1..Len(appended) :
        i < j => appended[i].lsn < appended[j].lsn

(***************************************************************************)
(* find_pkey_tuple.                                                        *)
(***************************************************************************)
Returned == fp.pc = "returned"
ReturnedFound == fp.pc = "returned" /\ fp.found

\* C12: a call leaves one row at most in the slot: after every scan the
\* slot holds the first match of that scan and no other, whatever other
\* versions the scan could see, and a found return reports that one row of
\* the final scan; a return is found exactly when the final scan matched.
C12_AtMostOneRow ==
    /\ fp.matches # << >> =>
          /\ fp.tid = Head(fp.matches)
          /\ fp.slot = heap[fp.tid].data
    /\ Returned => (fp.found <=> fp.matches # << >>)
    /\ ReturnedFound => fp.tid \in 1..Len(heap)

\* A found return after a retry, while the scan key has several versions and
\* a transaction is still in progress.
C12_Witness ==
    /\ ReturnedFound
    /\ fp.retried
    /\ Len(heap) >= 2
    /\ \E x \in Xids : xacts[x] = "in_progress"

\* C13: on a found return the slot holds all columns of one version of the
\* row (the one before or the one after a concurrent update), both columns
\* written by the same transaction, and that transaction committed.
C13_NoTornRead ==
    ReturnedFound =>
        /\ \E i \in 1..Len(heap) : fp.slot = heap[i].data
        /\ fp.slot[1] = fp.slot[2]
        /\ xacts[fp.slot[1]] = "committed"

\* A found return of the version an update left behind or of the version it
\* wrote, after waiting for the updating transaction.
C13_Witness ==
    /\ ReturnedFound
    /\ fp.retried
    /\ \E i, j \in 1..Len(heap) :
          /\ i < j
          /\ heap[i].xmax = heap[j].xmin
          /\ fp.tid \in {i, j}

\* C14 as stated: on a found return the returned version is live (inserted
\* by a committed transaction, not deleted or updated by a committed one),
\* with and without a lock request, and with a lock request the row lock is
\* held on that version.
C14_LiveAtReturn ==
    ReturnedFound =>
        /\ ~Dead(xacts, heap[fp.tid])
        /\ xacts[heap[fp.tid].xmin] = "committed"
        /\ fp.lock => fp.locked = fp.tid

\* C15: under fair scheduling, when every concurrent transaction eventually
\* finishes and finitely many of them write rows with the key, a call of
\* find_pkey_tuple eventually ends: it returns found or not found, or raises
\* an error; the retries in between are not reported to the caller.
C15_EventuallyReturns ==
    (fp.pc # "idle") ~> (fp.pc \in {"returned", "error"})

\* A call that returned after at least one retry.
C15_Witness ==
    /\ Returned
    /\ fp.retried
    /\ fp.res # "HeapTupleSelfUpdated"

\* The last scan matched a version on which the dirty snapshot reported a
\* transaction in progress.
ScanSawInProgress ==
    /\ fp.found
    /\ fp.snap.xmin # InvalidTransactionId \/ fp.snap.xmax # InvalidTransactionId

\* The transaction the function has to wait for after such a scan.
ReportedXid ==
    IF fp.snap.xmin # InvalidTransactionId THEN fp.snap.xmin ELSE fp.snap.xmax

AfterScan == fp.pc \in {"wait", "lock", "endscan", "returned", "error"}

\* C18, states: after a scan whose match has a transaction in progress the
\* function is waiting, and it is not at the lock attempt, holds no lock and
\* has not returned.
C18_WaitsInv ==
    /\ (AfterScan /\ ScanSawInProgress) => fp.pc = "wait"
    /\ fp.pc = "wait" => (ScanSawInProgress /\ fp.locked = 0)

\* C18, steps: the wait ends only when the reported transaction has
\* finished, and then the index is scanned again from the beginning.
C18_WaitsStep ==
    (fp.pc = "wait" /\ fp'.pc # "wait") =>
        /\ Finished(xacts, ReportedXid)
        /\ fp'.pc = "scan"
        /\ fp'.locked = 0

\* C18: whenever the scan finds a match on which the dirty snapshot reports
\* an in-progress inserting or deleting transaction, find_pkey_tuple blocks
\* until that transaction has finished and then rescans; it never tries to
\* lock and never returns a row for which the most recent scan reported one.
C18_WaitThenRescan == [](C18_WaitsInv) /\ [][C18_WaitsStep]_vars

\* The function waits for the transaction that is updating the row.
C18_Witness ==
    /\ fp.pc = "wait"
    /\ fp.snap.xmax \in Xids
    /\ xacts[fp.snap.xmax] = "in_progress"
    /\ heap[fp.tid].xmax = fp.snap.xmax

\* C19, states: a lock is attempted only with a lock request and a match;
\* a return after a successful attempt is found, with the lock on the
\* version in the slot; a not-found return holds no lock; an error is final.
C19_LockInv ==
    /\ fp.pc = "lock" => (fp.lock /\ fp.found)
    /\ ~fp.lock => (fp.res = "none" /\ fp.locked = 0)
    /\ AfterScan /\ ~fp.found => fp.pc \in {"endscan", "returned"}
    /\ (Returned /\ ~fp.found) => fp.locked = 0
    /\ (Returned /\ fp.found /\ fp.lock) =>
          (fp.res = "HeapTupleMayBeUpdated" /\ fp.locked = fp.tid)
    /\ fp.pc = "error" => fp.res \notin {"HeapTupleMayBeUpdated", "HeapTupleUpdated"}

\* C19, steps: the three outcomes of the attempt, and no result changes
\* outside the attempt.
C19_LockStep ==
    /\ (fp.pc = "lock" /\ fp' # fp) =>
          CASE fp'.res = "HeapTupleMayBeUpdated" ->
                   fp'.pc = "endscan" /\ fp'.locked = fp.tid /\ fp'.found
            [] fp'.res = "HeapTupleUpdated" ->
                   fp'.pc = "scan" /\ fp'.locked = 0 /\ fp'.retried
            [] OTHER -> fp'.pc = "error" /\ fp'.locked = 0
    /\ (fp.pc \notin {"lock", "idle"}) => (fp'.res = fp.res /\ fp'.locked = fp.locked)
    /\ fp.pc = "error" => fp'.pc = "error"
    /\ (fp.pc = "endscan" /\ fp' # fp) => (fp'.pc = "returned" /\ fp'.found = fp.found)

\* The outcomes alone, whether or not the attempt blocks: with a lock
\* requested and a match found, the lock attempt has three outcomes: success
\* ends the loop and the function returns found; a concurrent update is
\* logged and the scan restarts, and a restarted scan without a match
\* returns not found with no lock held; anything else raises an error and
\* nothing is returned.  Without a lock request or without a match no lock
\* is attempted.
LockOutcomes == [](C19_LockInv) /\ [][C19_LockStep]_vars

\* Not found after the lock attempt reported a concurrent update: the row
\* was deleted between the scan and the attempt.
NotFoundAfterConcurrentUpdate ==
    /\ Returned
    /\ ~fp.found
    /\ fp.lock
    /\ fp.res = "HeapTupleUpdated"
    /\ fp.locked = 0

\* C19 as stated: the three outcomes, with a lock attempt that is
\* non-blocking: whenever the function is at the attempt, the attempt can
\* complete at once, whatever other transactions are doing to the row.
\* heap_lock_tuple is called with nowait = false, so FindLock is not enabled
\* while a transaction that is deleting or updating the version is in
\* progress.
C19_NonBlockingAttempt ==
    /\ [](C19_LockInv /\ (fp.pc = "lock" => ENABLED FindLock))
    /\ [][C19_LockStep]_vars

(***************************************************************************)
(* The write gate: order of its checks.                                    *)
(***************************************************************************)
Handlers == {"standard_ExecutorStart", "other_ExecutorStart"}

\* The positions in the call trace of the calls of the functions in S.
CallsOf(calls, S) == { i \in 1..Len(calls) : calls[i] \in S }

PerformsWrites(qd) ==
    qd.hasModifyingCTE \/ qd.rowMarks \/ qd.operation # "CMD_SELECT"

\* The gate does its checks for this invocation.
Gated(a) == ~a.always_allow /\ PerformsWrites(a.queryDesc) /\ a.activated

GateChecks == {"bdr_local_node_read_only", "bdr_locks_check_dml",
               "RelationIdGetRelation"}

\* C16: an invocation of BdrExecutorStart that raises no error calls one
\* next handler, once: the previously installed hook if there is one, else
\* standard_ExecutorStart, as the last thing it does, after its checks; an
\* invocation that raises calls none.
C16_OneHandlerLast ==
    GateRan =>
        LET a == last.arg
            calls == a.out.calls
        IN IF a.out.result = "error"
           THEN CallsOf(calls, Handlers) = {} /\ a.out.handler = "none"
           ELSE /\ a.out.result = "delegated"
                /\ CallsOf(calls, Handlers) = {Len(calls)}
                /\ calls[Len(calls)] = NextHandler(a.prev)
                /\ a.out.handler = NextHandler(a.prev)

\* A statement that went through the per-table checks was handed to the
\* hook another library had installed before.
C16_Witness ==
    /\ GateRan
    /\ last.arg.prev = "other_ExecutorStart"
    /\ last.arg.out.result = "delegated"
    /\ last.arg.out.handler = "other_ExecutorStart"
    /\ CallsOf(last.arg.out.calls, {"RelationIdGetRelation"}) # {}

\* C17: the lock state, the read-only flag and the tables are consulted
\* only when the override is unset, the statement performs writes and the
\* database is replication-enabled; otherwise the gate delegates at once and
\* rejects nothing, on a read-only node and with a conflicting lock too.
C17_ChecksOnlyWhenGated ==
    GateRan =>
        LET a == last.arg
            calls == a.out.calls
        IN /\ CallsOf(calls, GateChecks) # {} => Gated(a)
           /\ ~Gated(a) =>
                 /\ a.out.result = "delegated"
                 /\ a.out.handler = NextHandler(a.prev)
                 /\ xact = "active"
                 /\ CallsOf(calls, GateChecks) = {}
           /\ (~a.always_allow /\ PerformsWrites(a.queryDesc)) =>
                 calls[1] = "bdr_is_bdr_activated_db"
           /\ (a.always_allow \/ ~PerformsWrites(a.queryDesc)) =>
                 Len(calls) = 1
           /\ Gated(a) =>
                 CallsOf(calls, {"bdr_local_node_read_only", "bdr_locks_check_dml"}) # {}

\* With the override set, an UPDATE of t1 was delegated on a read-only node
\* although the lock check would have raised.
C17_Witness ==
    /\ GateRan
    /\ last.arg.always_allow
    /\ last.arg.read_only
    /\ last.arg.locks = "error"
    /\ last.arg.queryDesc.operation = "CMD_UPDATE"
    /\ last.arg.queryDesc.resultRelations = <<1>>
    /\ last.arg.out.result = "delegated"

\* C20: for a write-performing statement on a replication-enabled database
\* with the override unset, bdr_locks_check_dml is called once, before any
\* relation is opened and before any handler is called; when it raises, the
\* statement (a plain INSERT on a writable node too) is neither delegated
\* nor rejected for a table.
C20_LockCheckFirst ==
    (GateRan /\ Gated(last.arg)) =>
        LET a == last.arg
            calls == a.out.calls
            lockcalls == CallsOf(calls, {"bdr_locks_check_dml"})
        IN /\ Cardinality(lockcalls) = 1
           /\ \A i \in CallsOf(calls, Handlers \cup {"RelationIdGetRelation"}) :
                 \A j \in lockcalls : j < i
           /\ a.locks = "error" =>
                 /\ a.out.result = "error"
                 /\ a.out.errcode = "bdr_locks_check_dml"
                 /\ CallsOf(calls, Handlers \cup {"RelationIdGetRelation"}) = {}

\* A plain INSERT on a writable node failed in the lock check.
C20_Witness ==
    /\ GateRan
    /\ Gated(last.arg)
    /\ PlainInsert(last.arg.queryDesc)
    /\ ~last.arg.read_only
    /\ last.arg.locks = "error"
    /\ last.arg.out.result = "error"
    /\ last.arg.out.errcode = "bdr_locks_check_dml"

\* C21: the truncate list is empty right after bdr_start_truncate and right
\* after bdr_finish_truncate; inside a transaction it holds only tables
\* registered in that transaction, and the TRUNCATE command queued at
\* pre-commit lists exactly the list, so never a table registered in an
\* earlier transaction, committed or aborted.
C21_BatchPerTransaction ==
    /\ last.op = "StartTransaction" => bdr_truncated_tables = << >>
    /\ xact = "active" =>
          \A i \in 1..Len(bdr_truncated_tables) :
              bdr_truncated_tables[i] \in last.registered
    /\ last.op = "CommitTransaction" =>
          /\ bdr_truncated_tables = << >>
          /\ \A i \in 1..Len(last.batch) : last.batch[i] \in last.registered
          /\ Appended(bdr_queued_commands, last.cmds) =
                IF last.batch = << >> THEN << >>
                ELSE << TruncateRow("TRUNCATE TABLE ONLY "
                                        \o CommaList(last.batch, QualifiedName)) >>

\* A transaction starts after one that registered tables and was aborted:
\* the list it left behind is gone.
C21_Witness ==
    /\ last.op = "StartTransaction"
    /\ last.batch # << >>
    /\ bdr_truncated_tables = << >>

\* C22: bdr_queue_truncate with both guards clear appends the truncated
\* table's id at the end of the list, also when the id is already in it, and
\* leaves the earlier entries as they were (t1 truncated twice in one
\* transaction is listed twice in the command queued at pre-commit); with
\* either guard set it leaves the list unchanged; it never appends a row to
\* a queue table.
C22_AppendsTableId ==
    /\ last.op = "bdr_queue_truncate" =>
          /\ bdr_truncated_tables =
                IF GuardSet(last) THEN last.batch
                ELSE Append(last.batch, last.arg)
          /\ Len(bdr_queued_commands) = last.cmds
          /\ Len(bdr_queued_drops) = last.drops
    /\ (last.op = "CommitTransaction" /\ last.batch = <<1, 1>>) =>
          Appended(bdr_queued_commands, last.cmds) =
              << TruncateRow("TRUNCATE TABLE ONLY public.t1, public.t1") >>

\* t1 was truncated a second time in one transaction.
C22_Witness ==
    /\ last.op = "bdr_queue_truncate"
    /\ last.arg = 1
    /\ last.batch = <<1>>
    /\ bdr_truncated_tables = <<1, 1>>

\* The row that the call of frame f appended: the first after the rows the
\* queue held when the call began.
SqlRowOf(f) ==
    /\ Len(bdr_queued_commands) > f.cmds
    /\ bdr_queued_commands[f.cmds + 1].command_tag = "SQL"
    /\ bdr_queued_commands[f.cmds + 1].command = f.query

\* C23: bdr_replicate_ddl_command sets the guard, then appends the command
\* row, then executes the command, then clears the guard: the guard is set
\* and nothing is appended when the call begins, the row is in the queue
\* whenever a call is executing its command and when it returns, and the
\* guard is clear on return; when the call fails the error is re-raised
\* through every enclosing call, the transaction is aborted and the rows it
\* had appended, the failed command's among them, are gone.
C23_QueueThenExecute ==
    /\ last.op = "bdr_replicate_ddl_command" =>
          /\ in_bdr_replicate_ddl_command
          /\ stack[Len(stack)].pc = "queue"
          /\ Len(bdr_queued_commands) = last.cmds
    /\ last.op = "replicate_queue" =>
          /\ last.in_ddl
          /\ last.frame.pc = "queue"
          /\ stack[Len(stack)].pc = "exec"
          /\ Len(bdr_queued_commands) = last.cmds + 1
    /\ \A i \in 1..Len(stack) :
          IF stack[i].pc = "exec" THEN SqlRowOf(stack[i])
          ELSE Len(bdr_queued_commands) = stack[i].cmds
    /\ last.op = "replicate_return" =>
          /\ last.frame.pc = "exec"
          /\ SqlRowOf(last.frame)
          /\ ~in_bdr_replicate_ddl_command
          /\ xact = "active"
    /\ last.op = "replicate_catch" =>
          /\ ~in_bdr_replicate_ddl_command
          /\ stack = << >>
          /\ xact = "idle"
          /\ bdr_queued_commands = << >>

\* The local execution of a command failed after its row had been appended.
C23_Witness ==
    /\ last.op = "replicate_catch"
    /\ last.frame.pc = "exec"
    /\ last.cmds >= 1
    /\ bdr_queued_commands = << >>
    /\ xact = "idle"

\* C24 as stated: on a writable node, a write-performing statement that is
\* not a plain INSERT is rejected with the missing-PRIMARY-KEY error naming
\* its first durable non-catalog result relation without a replica identity
\* index when it has one, and is delegated only when it has none.
C24_DelegatedOnlyWithIdentity ==
    (GateRan /\ ~last.arg.read_only /\ PerformsWrites(last.arg.queryDesc)
        /\ ~PlainInsert(last.arg.queryDesc)) =>
        LET a == last.arg
            rels == a.queryDesc.resultRelations
        IN Positions(rels, WithoutIdentity(a)) # {} =>
               MissingKeyError(a, FirstOf(rels, WithoutIdentity(a)))

\* C24 (amended): with the override unset, on a replication-enabled
\* database, when bdr_locks_check_dml returns without raising and on a
\* writable node, a write-performing statement that is not a plain INSERT
\* (an UPDATE, a DELETE, any statement with a modifying sub-query) is
\* rejected, with the missing-PRIMARY-KEY error naming the first durable
\* non-catalog result relation that has no replica identity index and
\* without calling a handler, when it has such a result relation; otherwise
\* it is delegated, whatever unlogged, temporary and catalog relations are
\* among its result relations, none of which has the index.
C24_IdentityForEveryRelation ==
    (GateRan /\ ~last.arg.always_allow /\ last.arg.activated
        /\ last.arg.locks = "ok" /\ ~last.arg.read_only
        /\ PerformsWrites(last.arg.queryDesc)
        /\ ~PlainInsert(last.arg.queryDesc)) =>
        LET a == last.arg
            rels == a.queryDesc.resultRelations
        IN /\ \A relid \in Oids \ WritableOids : ~a.replidindex[relid]
           /\ IF Positions(rels, WithoutIdentity(a)) # {}
              THEN MissingKeyError(a, FirstOf(rels, WithoutIdentity(a)))
              ELSE Delegated(a)

\* An INSERT with a modifying sub-query whose result relations are the
\* catalog relation, then t2 without a replica identity index, was
\* rejected naming t2.
C24_Witness ==
    /\ GateRan
    /\ last.arg.queryDesc.operation = "CMD_INSERT"
    /\ last.arg.queryDesc.hasModifyingCTE
    /\ last.arg.queryDesc.resultRelations = <<5, 2>>
    /\ ~last.arg.read_only
    /\ ~last.arg.replidindex[5]
    /\ last.arg.out.errmsg =
           "Cannot run UPDATE or DELETE on table t2 because it does not have a PRIMARY KEY."
    /\ last.arg.out.handler = "none"

\* The positions in a trigger array of the TRUNCATE triggers that call
\* bdr.queue_truncate.
QueueTruncateTriggers(triggers) ==
    { i \in 1..Len(triggers) :
        /\ TRIGGER_FOR_TRUNCATE(triggers[i].tgtype)
        /\ triggers[i].tgfoid = "bdr.queue_truncate" }

\* C25: bdr_create_truncate_trigger is idempotent per table: called for a
\* table that has a TRUNCATE trigger calling bdr.queue_truncate, wherever
\* that trigger is among the table's triggers and whatever the others are,
\* it creates no trigger; so the table never has two such triggers and one
\* TRUNCATE of it calls bdr_queue_truncate at most once, adding at most one
\* entry to the truncate list.
C25_TruncateTriggerOnce ==
    /\ (last.op = "bdr_create_truncate_trigger"
            /\ QueueTruncateTriggers(last.arg) # {}) => trigdesc = last.arg
    /\ Cardinality(QueueTruncateTriggers(trigdesc)) <= 1
    /\ last.op = "ExecuteTruncate" =>
          Len(bdr_truncated_tables) <= Len(last.batch) + 1

\* The row has a null in a column of the index.
NullInIndexColumn(idx, tup) ==
    \E k \in 1..Len(idx.indkey) : tup.isnull[idx.indkey[k]]

\* C26: build_index_scan_keys yields one entry per index: a scan key when
\* the index is unique, has no expression column and the row has no null in
\* a column of the index, and NULL for every other index.
\* build_index_scan_key returns true exactly when the row has a null in a
\* column of the index; it writes one entry per index column, entry k
\* numbered k, comparing for equality with the row's value of index column
\* k, and flagged SK_ISNULL exactly when that value is null.
C26_ScanKeys ==
    /\ last.op = "build_index_scan_keys" =>
          LET a == last.arg
          IN /\ Len(a.scan_keys) = Len(a.indexes)
             /\ \A i \in 1..Len(a.indexes) :
                   LET ii == a.indexes[i]
                   IN IF /\ ii.ii_Unique
                         /\ ii.ii_Expressions = << >>
                         /\ ~NullInIndexColumn(ii, a.tup)
                      THEN /\ a.scan_keys[i] # << >>
                           /\ a.scan_keys[i] = build_index_scan_key(ii, a.tup).skey
                      ELSE a.scan_keys[i] = << >>
    /\ last.op = "build_index_scan_key" =>
          LET a == last.arg
              indkey == a.idxrel.indkey
          IN /\ a.out.hasnulls <=> NullInIndexColumn(a.idxrel, a.tup)
             /\ Len(a.out.skey) = Len(indkey)
             /\ \A k \in 1..Len(indkey) :
                   /\ a.out.skey[k].sk_attno = k
                   /\ a.out.skey[k].sk_strategy = BTEqualStrategyNumber
                   /\ a.out.skey[k].sk_argument = a.tup.values[indkey[k]]
                   /\ ("SK_ISNULL" \in a.out.skey[k].sk_flags)
                          <=> a.tup.isnull[indkey[k]]

\* Of two unique indexes without expressions, the one on b got no key,
\* since b is null in the row, and the one on a got a key.
C26_Witness ==
    /\ last.op = "build_index_scan_keys"
    /\ last.arg.indexes = << IdxUnique(<<2>>), IdxUnique(<<1>>) >>
    /\ last.arg.tup.isnull = << FALSE, TRUE >>
    /\ last.arg.scan_keys[1] = << >>
    /\ Len(last.arg.scan_keys[2]) = 1
    /\ last.arg.scan_keys[2][1].sk_argument = "a1"

\* C27: the guard stays set from the moment the outermost
\* bdr_replicate_ddl_command call sets it until that call exits, also after
\* a nested call has returned or failed: it is set whenever a call is in
\* progress, so every callback fired inside the outermost call appends
\* nothing and registers nothing.
C27_GuardHeldByOutermost ==
    /\ stack # << >> => in_bdr_replicate_ddl_command
    /\ (last.op \in Callbacks /\ last.depth > 0) =>
          /\ last.in_ddl
          /\ NothingAppended

====
